---- MODULE Spec2Model ----
(***************************************************************************)
(* The multi-source aggregation-and-scoring pipeline of                    *)
(* server/product_research_engine.py (ProductResearchEngine and its        *)
(* adapters) and the sample-data entry point of                            *)
(* server/product_research_test.py, and direct calls of                    *)
(* ProductScoringEngine.calculate_score and of the adapters' commission    *)
(* lookup.                                                                 *)
(*                                                                         *)
(* Number representation (Python floats are modelled as exact fixed-point  *)
(* integers):                                                              *)
(*   price, original_price          cents                                  *)
(*   commission_rate                tenths of a percent                    *)
(*   commission_amount              1e-5 dollars (cents x tenths)          *)
(*   rating                         tenths of a star                       *)
(*   trending/competition_score     tenths of a point                      *)
(*   the seven sub-scores           1e-4 points                            *)
(*   research_score (engine)        1e-7 points                            *)
(* Strings the code inspects (lower(), substring tests, character          *)
(* filters) are sequences of one-character strings.                        *)
(***************************************************************************)
EXTENDS Integers, Sequences, FiniteSets, TLC

\* Python's None.
NONE == -999999

\* Python truthiness of an optional number: None and 0 are falsy.
Truthy(x) == x # NONE /\ x # 0

\* Python's "x or d" on an optional number.
OrElse(x, d) == IF Truthy(x) THEN x ELSE d

Min2(a, b) == IF a <= b THEN a ELSE b

Max2(a, b) == IF a >= b THEN a ELSE b

\* sum(s), by halves.
RECURSIVE SumSeq(_)
SumSeq(s) ==
  IF s = <<>> THEN 0
  ELSE IF Len(s) = 1 THEN s[1]
  ELSE SumSeq(SubSeq(s, 1, Len(s) \div 2)) + SumSeq(SubSeq(s, Len(s) \div 2 + 1, Len(s)))

\* s[:n] for n >= 0.
Take(s, n) == SubSeq(s, 1, Min2(n, Len(s)))

\* ---------------------------------------------------------------- strings

UpperChars == <<"A","B","C","D","E","F","G","H","I","J","K","L","M","N","O","P","Q","R","S","T","U","V","W","X","Y","Z">>

LowerChars == <<"a","b","c","d","e","f","g","h","i","j","k","l","m","n","o","p","q","r","s","t","u","v","w","x","y","z">>

LowerChar(c) ==
  IF \E i \in 1..26 : UpperChars[i] = c
  THEN LowerChars[CHOOSE i \in 1..26 : UpperChars[i] = c]
  ELSE c

\* str.lower()
Lower(s) == [i \in 1..Len(s) |-> LowerChar(s[i])]

\* Python's "k in s" on strings.
Contains(s, k) ==
  \E i \in 0..(Len(s) - Len(k)) : SubSeq(s, i + 1, i + Len(k)) = k

Digits == <<"0","1","2","3","4","5","6","7","8","9">>

IsDigit(c) == \E i \in 1..10 : Digits[i] = c

DigitVal(c) == (CHOOSE i \in 1..10 : Digits[i] = c) - 1

RECURSIVE DigitsToInt(_)
DigitsToInt(s) ==
  IF s = <<>> THEN 0
  ELSE DigitsToInt(SubSeq(s, 1, Len(s) - 1)) * 10 + DigitVal(s[Len(s)])

\* AmazonProductResearcher._get_amazon_commission_rate: (key, rate in tenths of a percent), insertion order
AmazonCommissionRates ==
  << <<<<"l", "u", "x", "u", "r", "y", " ", "b", "e", "a", "u", "t", "y">>, 100>>,
     <<<<"a", "m", "a", "z", "o", "n", " ", "c", "o", "i", "n", "s">>, 100>>,
     <<<<"d", "i", "g", "i", "t", "a", "l", " ", "m", "u", "s", "i", "c">>, 100>>,
     <<<<"p", "h", "y", "s", "i", "c", "a", "l", " ", "m", "u", "s", "i", "c">>, 80>>,
     <<<<"h", "a", "n", "d", "m", "a", "d", "e">>, 80>>,
     <<<<"d", "i", "g", "i", "t", "a", "l", " ", "v", "i", "d", "e", "o", " ", "g", "a", "m", "e", "s">>, 80>>,
     <<<<"p", "h", "y", "s", "i", "c", "a", "l", " ", "v", "i", "d", "e", "o", " ", "g", "a", "m", "e", "s">>, 60>>,
     <<<<"p", "c", " ", "c", "o", "m", "p", "o", "n", "e", "n", "t", "s">>, 50>>,
     <<<<"h", "e", "a", "d", "p", "h", "o", "n", "e", "s">>, 40>>,
     <<<<"b", "e", "a", "u", "t", "y">>, 40>>,
     <<<<"m", "u", "s", "i", "c", "a", "l", " ", "i", "n", "s", "t", "r", "u", "m", "e", "n", "t", "s">>, 40>>,
     <<<<"b", "u", "s", "i", "n", "e", "s", "s", " ", "p", "r", "o", "d", "u", "c", "t", "s">>, 40>>,
     <<<<"w", "i", "r", "e", "l", "e", "s", "s", " ", "p", "r", "o", "d", "u", "c", "t", "s">>, 40>>,
     <<<<"e", "l", "e", "c", "t", "r", "o", "n", "i", "c", "s">>, 30>>,
     <<<<"c", "a", "m", "e", "r", "a", "s">>, 30>>,
     <<<<"t", "o", "y", "s">>, 30>>,
     <<<<"k", "i", "t", "c", "h", "e", "n">>, 30>>,
     <<<<"a", "u", "t", "o", "m", "o", "t", "i", "v", "e">>, 30>>,
     <<<<"s", "p", "o", "r", "t", "s">>, 30>> >>

\* SerpApiResearcher._get_amazon_commission_rate: the second copy of the table (no 'amazon coins')
SerpAmazonCommissionRates ==
  << <<<<"l", "u", "x", "u", "r", "y", " ", "b", "e", "a", "u", "t", "y">>, 100>>,
     <<<<"d", "i", "g", "i", "t", "a", "l", " ", "m", "u", "s", "i", "c">>, 100>>,
     <<<<"p", "h", "y", "s", "i", "c", "a", "l", " ", "m", "u", "s", "i", "c">>, 80>>,
     <<<<"h", "a", "n", "d", "m", "a", "d", "e">>, 80>>,
     <<<<"d", "i", "g", "i", "t", "a", "l", " ", "v", "i", "d", "e", "o", " ", "g", "a", "m", "e", "s">>, 80>>,
     <<<<"p", "h", "y", "s", "i", "c", "a", "l", " ", "v", "i", "d", "e", "o", " ", "g", "a", "m", "e", "s">>, 60>>,
     <<<<"p", "c", " ", "c", "o", "m", "p", "o", "n", "e", "n", "t", "s">>, 50>>,
     <<<<"h", "e", "a", "d", "p", "h", "o", "n", "e", "s">>, 40>>,
     <<<<"b", "e", "a", "u", "t", "y">>, 40>>,
     <<<<"m", "u", "s", "i", "c", "a", "l", " ", "i", "n", "s", "t", "r", "u", "m", "e", "n", "t", "s">>, 40>>,
     <<<<"b", "u", "s", "i", "n", "e", "s", "s", " ", "p", "r", "o", "d", "u", "c", "t", "s">>, 40>>,
     <<<<"w", "i", "r", "e", "l", "e", "s", "s", " ", "p", "r", "o", "d", "u", "c", "t", "s">>, 40>>,
     <<<<"e", "l", "e", "c", "t", "r", "o", "n", "i", "c", "s">>, 30>>,
     <<<<"c", "a", "m", "e", "r", "a", "s">>, 30>>,
     <<<<"t", "o", "y", "s">>, 30>>,
     <<<<"k", "i", "t", "c", "h", "e", "n">>, 30>>,
     <<<<"a", "u", "t", "o", "m", "o", "t", "i", "v", "e">>, 30>>,
     <<<<"s", "p", "o", "r", "t", "s">>, 30>> >>

\* SerpApiResearcher._estimate_commission_rate: category_rates fallback table
CategoryRates ==
  << <<<<"e", "l", "e", "c", "t", "r", "o", "n", "i", "c", "s">>, 30>>,
     <<<<"b", "e", "a", "u", "t", "y">>, 40>>,
     <<<<"f", "a", "s", "h", "i", "o", "n">>, 60>>,
     <<<<"h", "o", "m", "e">>, 40>>,
     <<<<"s", "p", "o", "r", "t", "s">>, 30>>,
     <<<<"t", "o", "y", "s">>, 30>>,
     <<<<"b", "o", "o", "k", "s">>, 45>>,
     <<<<"h", "e", "a", "l", "t", "h">>, 50>> >>

Str_amazon == <<"a", "m", "a", "z", "o", "n">>
Str_walmart == <<"w", "a", "l", "m", "a", "r", "t">>
Str_target == <<"t", "a", "r", "g", "e", "t">>
Str_bestbuy == <<"b", "e", "s", "t", "b", "u", "y">>
Str_ebay == <<"e", "b", "a", "y">>
Str_etsy == <<"e", "t", "s", "y">>
Str_shopify == <<"s", "h", "o", "p", "i", "f", "y">>
Str_store == <<"s", "t", "o", "r", "e">>
Str_General == <<"G", "e", "n", "e", "r", "a", "l">>
Str_tech == <<"t", "e", "c", "h">>
Str_electronics == <<"e", "l", "e", "c", "t", "r", "o", "n", "i", "c", "s">>
Str_software == <<"s", "o", "f", "t", "w", "a", "r", "e">>
Src_Amazon == <<"A", "m", "a", "z", "o", "n", ".", "c", "o", "m">>
Src_eBay == <<"e", "B", "a", "y">>
Src_Walmart == <<"W", "a", "l", "m", "a", "r", "t">>
Cat_Headphones == <<"W", "i", "r", "e", "l", "e", "s", "s", " ", "H", "e", "a", "d", "p", "h", "o", "n", "e", "s", " ", "f", "o", "r", " ", "G", "a", "m", "i", "n", "g">>
Cat_Books == <<"B", "o", "o", "k", "s">>
Cat_Beauty == <<"L", "u", "x", "u", "r", "y", " ", "B", "e", "a", "u", "t", "y">>
Niche_Tech == <<"T", "e", "c", "h">>
Niche_fitness == <<"f", "i", "t", "n", "e", "s", "s">>
Title_A == <<"Y", "o", "g", "a", " ", "M", "a", "t">>
Title_B == <<"U", "S", "B", " ", "H", "u", "b">>
Price_25 == <<"$", "2", "5", ".", "0", "0">>
Price_1299 == <<"$", "1", ",", "2", "9", "9", ".", "0", "0">>
Price_bad == <<"1", ".", "2", ".", "3">>
Price_30 == <<"3", "0">>
Price_20 == <<"$", "2", "0">>
Str_choice == <<"c", "h", "o", "i", "c", "e">>
Str_bestseller == <<"b", "e", "s", "t", "s", "e", "l", "l", "e", "r">>
Class_Choice == <<"A", "m", "a", "z", "o", "n", "'", "s", " ", "C", "h", "o", "i", "c", "e">>
Class_Plain == <<"O", "f", "f", "i", "c", "e", " ", "P", "r", "o", "d", "u", "c", "t">>

\* ------------------------------------------------- ProductScoringEngine

\* self.weights, in hundredths.
Weights ==
  [commission_rate |-> 25, trending_score |-> 20, competition_score |-> 15,
   rating_score |-> 15, volume_score |-> 10, price_score |-> 10, review_score |-> 5]

Metrics == DOMAIN Weights

\* floor(a * 10000 / d) for a >= 0, d > 0, by long division (no 32-bit overflow).
RECURSIVE LongDiv(_, _, _, _)
LongDiv(q, r, d, k) ==
  IF k = 0 THEN q
  ELSE LongDiv(q * 10 + ((r * 10) \div d), (r * 10) % d, d, k - 1)

ScaledQuotient(a, d) == LongDiv(a \div d, a % d, d, 4)

\* min((search_volume / niche_avg_volume) * 50, 100) in 1e-4 points, where the
\* niche average is the rational avg.num / avg.den (avg.num > 0).
VolumeScore(search_volume, avg) ==
  LET a == search_volume * avg.den * 50
  IN  IF a >= 100 * avg.num THEN 1000000 ELSE ScaledQuotient(a, avg.num)

\* Mutant: the sweet spot excludes its two end points.
PriceScoreOpenSweetSpot(price) ==
  IF 2000 < price /\ price < 20000 THEN 1000000
  ELSE IF 1000 <= price /\ price <= 50000 THEN 800000
  ELSE IF price <= 1000 THEN 300000
  ELSE Max2(600000 - (price - 50000), 200000)

PriceScore(price) ==
  IF 2000 <= price /\ price <= 20000 THEN 1000000
  ELSE IF 1000 <= price /\ price <= 50000 THEN 800000
  ELSE IF price <= 1000 THEN 300000
  ELSE Max2(600000 - (price - 50000), 200000)

\* The scores dict of calculate_score, in 1e-4 points.
SubScores(product, niche_data) ==
  [commission_rate   |-> Min2(OrElse(product.commission_rate, 0) * 10000, 1000000),
   trending_score    |-> Min2(OrElse(product.trending_score, 0) * 1000, 1000000),
   competition_score |-> Max2(1000000 - OrElse(product.competition_score, 500) * 1000, 0),
   rating_score      |-> OrElse(product.rating, 30) * 20000,
   volume_score      |-> VolumeScore(OrElse(product.search_volume, 1000),
                                     niche_data.avg_search_volume),
   price_score       |-> PriceScore(OrElse(product.price, 0)),
   review_score      |-> Min2(OrElse(product.review_count, 0) * 100, 1000000)]

WeightedSum(scores) ==
  scores.commission_rate * Weights.commission_rate
  + scores.trending_score * Weights.trending_score
  + scores.competition_score * Weights.competition_score
  + scores.rating_score * Weights.rating_score
  + scores.volume_score * Weights.volume_score
  + scores.price_score * Weights.price_score
  + scores.review_score * Weights.review_score

TechNiches == {Str_tech, Str_electronics, Str_software}

\* calculate_score: the returned value in 1e-7 points (100 points = 10^9).
calculate_score(product, niche_data) ==
  LET final_score == WeightedSum(SubScores(product, niche_data))
      bonus == IF Lower(product.niche) \in TechNiches THEN 11 ELSE 10
  IN  Min2(final_score * bonus, 1000000000)


\* ------------------------------------------------ criteria filter (both adapters)

\* AmazonProductResearcher._meets_criteria
AmazonMeetsCriteria(product, params) ==
  IF product.commission_rate < params.min_commission_rate THEN FALSE
  ELSE IF product.trending_score < params.min_trending_score THEN FALSE
  ELSE IF ~(params.price_range[1] <= product.price /\ product.price <= params.price_range[2]) THEN FALSE
  ELSE TRUE

\* Mutant: the commission test rejects a product whose rate equals the minimum.
SerpMeetsCriteriaStrict(product, params) ==
  IF product.commission_rate <= params.min_commission_rate THEN FALSE
  ELSE IF product.trending_score < params.min_trending_score THEN FALSE
  ELSE IF ~(params.price_range[1] <= product.price /\ product.price <= params.price_range[2]) THEN FALSE
  ELSE TRUE

\* SerpApiResearcher._meets_criteria (a parsed product is never falsy)
SerpMeetsCriteria(product, params) ==
  IF product.commission_rate < params.min_commission_rate THEN FALSE
  ELSE IF product.trending_score < params.min_trending_score THEN FALSE
  ELSE IF ~(params.price_range[1] <= product.price /\ product.price <= params.price_range[2]) THEN FALSE
  ELSE TRUE

\* ------------------------------------------------ commission estimators

\* Mutant: a key matches only when it equals the lowercased category.
RECURSIVE TableLookupExactKey(_, _, _)
TableLookupExactKey(table, category_lower, default) ==
  IF table = <<>> THEN default
  ELSE IF category_lower = Head(table)[1] THEN Head(table)[2]
  ELSE TableLookupExactKey(Tail(table), category_lower, default)

\* for key, rate in table.items(): if key in category_lower: return rate
RECURSIVE TableLookup(_, _, _)
TableLookup(table, category_lower, default) ==
  IF table = <<>> THEN default
  ELSE IF Contains(category_lower, Head(table)[1]) THEN Head(table)[2]
  ELSE TableLookup(Tail(table), category_lower, default)

AmazonGetCommissionRate(category) ==
  TableLookup(AmazonCommissionRates, Lower(category), 30)

SerpGetAmazonCommissionRate(category) ==
  TableLookup(SerpAmazonCommissionRates, Lower(category), 30)

AnyStoreIn(source_lower, stores) == \E s \in stores : Contains(source_lower, s)

\* SerpApiResearcher._estimate_commission_rate
EstimateCommissionRate(source, category) ==
  LET source_lower == Lower(source)
      category_lower == Lower(category)
  IN  IF Contains(source_lower, Str_amazon) THEN SerpGetAmazonCommissionRate(category)
      ELSE IF AnyStoreIn(source_lower, {Str_walmart, Str_target, Str_bestbuy}) THEN 40
      ELSE IF AnyStoreIn(source_lower, {Str_ebay, Str_etsy}) THEN 20
      ELSE IF AnyStoreIn(source_lower, {Str_shopify, Str_store}) THEN 50
      ELSE TableLookup(CategoryRates, category_lower, 40)

\* ------------------------------------------------ SerpApiResearcher parsing

\* ''.join(c for c in price_str if c.isdigit() or c == '.')
CleanPrice(price_str) == SelectSeq(price_str, LAMBDA c : IsDigit(c) \/ c = ".")

DotCount(s) == Len(SelectSeq(s, LAMBDA c : c = "."))

\* float(s) accepts a cleaned string iff it has at most one '.' and a digit.
FloatParses(s) == DotCount(s) <= 1 /\ Len(s) > DotCount(s)

DotPos(s) == IF DotCount(s) = 0 THEN Len(s) + 1 ELSE CHOOSE i \in 1..Len(s) : s[i] = "."

\* float(s) in cents, for strings with at most two fractional digits.
FloatCents(s) ==
  LET ip == SubSeq(s, 1, DotPos(s) - 1)
      fp == SubSeq(s, DotPos(s) + 1, Len(s))
      f2 == IF Len(fp) = 0 THEN 0
            ELSE IF Len(fp) = 1 THEN DigitVal(fp[1]) * 10
            ELSE DigitVal(fp[1]) * 10 + DigitVal(fp[2])
  IN  DigitsToInt(ip) * 100 + f2

\* price: 0 when the cleaned string is empty or float() raises.
ParsePrice(price_str) ==
  LET price_clean == CleanPrice(price_str)
  IN  IF price_clean # <<>> /\ FloatParses(price_clean) THEN FloatCents(price_clean) ELSE 0

\* item.get('compared_at_price', item.get('original_price')); an absent key is <<>>.
OriginalPriceStr(item) ==
  IF item.compared_at_price # <<>> THEN item.compared_at_price ELSE item.original_price

\* original_price: None when absent, when the cleaned string is empty or float() raises.
ParseOriginalPrice(item) ==
  LET original_price_clean == CleanPrice(OriginalPriceStr(item))
  IN  IF OriginalPriceStr(item) # <<>> /\ original_price_clean # <<>> /\ FloatParses(original_price_clean)
      THEN FloatCents(original_price_clean) ELSE NONE

\* SerpApiResearcher._calculate_trending_score_shopping (tenths of a point)
TrendingScoreShopping(item) ==
  LET s1 == 500 + (IF Truthy(item.rating) THEN (item.rating - 30) * 10 ELSE 0)
      s2 == s1 + (IF ~Truthy(item.reviews) THEN 0
                  ELSE IF item.reviews > 1000 THEN 200
                  ELSE IF item.reviews > 100 THEN 100
                  ELSE IF item.reviews > 10 THEN 50
                  ELSE 0)
      s3 == s2 + (IF item.compared_at_price # <<>> \/ item.original_price # <<>> THEN 100 ELSE 0)
  IN  Min2(s3, 1000)

\* Mutant: the review thresholds are tested one after the other and add up.
CompetitionScoreShoppingCumulative(item) ==
  LET s1 == 500 + (IF Truthy(item.reviews) /\ item.reviews > 5000 THEN 300 ELSE 0)
                + (IF Truthy(item.reviews) /\ item.reviews > 1000 THEN 200 ELSE 0)
                + (IF Truthy(item.reviews) /\ item.reviews > 100 THEN 100 ELSE 0)
      s2 == s1 + (IF Truthy(item.rating) /\ item.rating > 45 THEN 100 ELSE 0)
  IN  Min2(s2, 1000)

\* SerpApiResearcher._calculate_competition_score_shopping (tenths of a point)
CompetitionScoreShopping(item) ==
  LET s1 == 500 + (IF ~Truthy(item.reviews) THEN 0
                   ELSE IF item.reviews > 5000 THEN 300
                   ELSE IF item.reviews > 1000 THEN 200
                   ELSE IF item.reviews > 100 THEN 100
                   ELSE 0)
      s2 == s1 + (IF Truthy(item.rating) /\ item.rating > 45 THEN 100 ELSE 0)
  IN  Min2(s2, 1000)

\* _parse_shopping_item returns None for an item without title and for an item
\* whose parsing raises (caught by its own try/except).
ShoppingItemParses(item) == item.title # <<>> /\ ~item.malformed

\* SerpApiResearcher._parse_shopping_item, for an item that parses.
ParseShoppingItem(item, params) ==
  LET category == IF params.product_category # <<>> THEN params.product_category ELSE Str_General
      price == ParsePrice(item.price)
      commission_rate == EstimateCommissionRate(item.source, category)
  IN  [title |-> item.title,
       category |-> category,
       niche |-> params.niche,
       price |-> price,
       original_price |-> ParseOriginalPrice(item),
       commission_rate |-> commission_rate,
       commission_amount |-> IF price # 0 THEN price * commission_rate ELSE 0,
       rating |-> IF Truthy(item.rating) THEN item.rating ELSE NONE,
       review_count |-> IF Truthy(item.reviews) THEN item.reviews ELSE NONE,
       trending_score |-> TrendingScoreShopping(item),
       competition_score |-> CompetitionScoreShopping(item),
       research_score |-> 0,
       search_volume |-> NONE,
       difficulty |-> NONE,
       api_source |-> "serpapi_live",
       external_id |-> item.product_id,
       oid |-> 0]

\* The loop of search_products: the items that parse and meet the criteria,
\* parsed, in response order.
SerpParseAndFilter(items, params) ==
  LET parsing == SelectSeq(items, ShoppingItemParses)
      parsed == [i \in 1..Len(parsing) |-> ParseShoppingItem(parsing[i], params)]
  IN  SelectSeq(parsed, LAMBDA product : SerpMeetsCriteria(product, params))

\* SerpApiResearcher.search_products: response.ok = FALSE is a failure of the
\* whole call (network error, non-2xx, malformed JSON), which returns [].
SerpSearchProducts(api_key, response, params) ==
  IF ~api_key THEN <<>>
  ELSE IF ~response.ok THEN <<>>
  ELSE SerpParseAndFilter(response.items, params)


\* ------------------------------------------------ AmazonProductResearcher parsing

\* AmazonProductResearcher._calculate_trending_score (tenths of a point)
AmazonTrendingScore(item) ==
  LET s1 == 500 + (IF item.StarRating # NONE THEN (item.StarRating - 30) * 10 ELSE 0)
      s2 == s1 + (IF ~Truthy(item.Count) THEN 0
                  ELSE IF item.Count > 1000 THEN 200
                  ELSE IF item.Count > 100 THEN 100
                  ELSE 0)
      s3 == s2 + (IF \E i \in 1..Len(item.Classifications) :
                        \/ Contains(Lower(item.Classifications[i]), Str_choice)
                        \/ Contains(Lower(item.Classifications[i]), Str_bestseller)
                  THEN 150 ELSE 0)
  IN  Min2(s3, 1000)

\* AmazonProductResearcher._calculate_competition_score (tenths of a point)
AmazonCompetitionScore(item) ==
  LET s1 == 500 + (IF ~Truthy(item.Count) THEN 0
                   ELSE IF item.Count > 5000 THEN 300
                   ELSE IF item.Count > 1000 THEN 200
                   ELSE IF item.Count > 100 THEN 100
                   ELSE 0)
      s2 == s1 + (IF Len(item.Listings) > 1 THEN 150 ELSE 0)
  IN  Min2(s2, 1000)

\* AmazonProductResearcher._parse_amazon_item, for an item whose parsing does not raise.
ParseAmazonItem(item, params) ==
  LET offers == item.Listings
      price == IF offers # <<>> /\ Truthy(offers[1].Amount) THEN offers[1].Amount ELSE 0
      original_price == IF offers # <<>> /\ Truthy(offers[1].SavingBasis)
                        THEN offers[1].SavingBasis ELSE NONE
      category0 == IF params.product_category # <<>> THEN params.product_category ELSE Str_General
      category == IF item.BrowseNode # <<>> THEN item.BrowseNode ELSE category0
      commission_rate == AmazonGetCommissionRate(category)
  IN  [title |-> item.Title,
       category |-> category,
       niche |-> params.niche,
       price |-> price,
       original_price |-> original_price,
       commission_rate |-> commission_rate,
       commission_amount |-> price * commission_rate,
       rating |-> item.StarRating,
       review_count |-> IF Truthy(item.Count) THEN item.Count ELSE NONE,
       trending_score |-> AmazonTrendingScore(item),
       competition_score |-> AmazonCompetitionScore(item),
       research_score |-> 0,
       search_volume |-> NONE,
       difficulty |-> NONE,
       api_source |-> "amazon",
       external_id |-> item.ASIN,
       oid |-> 0]

\* Mutant: one item that fails to parse aborts the loop and empties the result.
AmazonParseAndFilterAllOrNothing(items, params) ==
  IF \E i \in 1..Len(items) : items[i].malformed THEN <<>>
  ELSE LET parsed == [i \in 1..Len(items) |-> ParseAmazonItem(items[i], params)]
       IN  SelectSeq(parsed, LAMBDA product : AmazonMeetsCriteria(product, params))

\* The loop of search_products: the items that parse and meet the criteria,
\* parsed, in response order.
AmazonParseAndFilter(items, params) ==
  LET parsing == SelectSeq(items, LAMBDA item : ~item.malformed)
      parsed == [i \in 1..Len(parsing) |-> ParseAmazonItem(parsing[i], params)]
  IN  SelectSeq(parsed, LAMBDA product : AmazonMeetsCriteria(product, params))

\* AmazonProductResearcher.search_products
AmazonSearchProducts(amazon_api, response, params) ==
  IF ~amazon_api THEN <<>>
  ELSE IF ~response.ok THEN <<>>
  ELSE AmazonParseAndFilter(response.items, params)


\* ------------------------------------------------ enrichment (SerpApiResearcher)

\* A lookup that failed (network error, non-2xx, malformed JSON): the helper returns None.
FailedLookup == [ok |-> FALSE, total_results |-> 0, organic |-> <<>>]

\* _calculate_serp_difficulty over organic_results[:10]; a result records whether
\* its link is on an authority domain and whether its title has a commercial term.
RECURSIVE SerpDifficultySum(_, _)
SerpDifficultySum(results, i) ==
  IF i > Min2(Len(results), 10) THEN 0
  ELSE (IF results[i].authority THEN 10 - (i - 1) ELSE 0)
       + (IF results[i].commercial THEN 5 ELSE 0)
       + SerpDifficultySum(results, i + 1)

CalculateSerpDifficulty(organic_results) ==
  Min2(30 + SerpDifficultySum(organic_results, 1), 100)

\* _get_search_volume, for a lookup that succeeded.
GetSearchVolume(lookup) ==
  [search_volume |-> Min2(lookup.total_results \div 1000, 50000),
   difficulty |-> CalculateSerpDifficulty(lookup.organic)]

\* _analyze_competition: competition_score over organic_results[:10]; a result
\* records whether its link is on an affiliate domain and whether its title has a
\* review indicator.
RECURSIVE CompetitionSum(_, _)
CompetitionSum(results, i) ==
  IF i > Min2(Len(results), 10) THEN 0
  ELSE (IF results[i].affiliate THEN 5 ELSE 0)
       + (IF results[i].review THEN 3 ELSE 0)
       + CompetitionSum(results, i + 1)

\* Mutant: the raw competition signal is passed on without the cap of 50.
SerpCompetitionUncapped(lookup) == CompetitionSum(lookup.organic, 1)

\* serp_competition of _analyze_competition, in points.
SerpCompetition(lookup) == Min2(CompetitionSum(lookup.organic, 1), 50)

\* Mutant: the competition adjustment is written to trending_score.
EnrichOneAdjustsTrending(product, outcome) ==
  LET p1 == IF outcome.search.ok
            THEN [product EXCEPT !.search_volume = GetSearchVolume(outcome.search).search_volume,
                                 !.difficulty = GetSearchVolume(outcome.search).difficulty]
            ELSE product
  IN  IF outcome.comp.ok
      THEN [p1 EXCEPT !.trending_score =
                 Min2(p1.trending_score + SerpCompetition(outcome.comp) * 10, 1000)]
      ELSE p1

\* The loop body of enrich_product_data for one product; outcome holds the two
\* lookups made for it.  A lookup that fails returns None and its update is
\* skipped; an exception raised in the body after an update leaves that update
\* in place (the product is mutated in place), so it has the effect of the
\* outcome whose later lookups failed.
EnrichOne(product, outcome) ==
  LET p1 == IF outcome.search.ok
            THEN [product EXCEPT !.search_volume = GetSearchVolume(outcome.search).search_volume,
                                 !.difficulty = GetSearchVolume(outcome.search).difficulty]
            ELSE product
  IN  IF outcome.comp.ok
      THEN [p1 EXCEPT !.competition_score =
                 Min2(p1.competition_score + SerpCompetition(outcome.comp) * 10, 1000)]
      ELSE p1

\* Mutant: a product whose search lookup failed is not appended.
EnrichProductDataDropsFailed(api_key, products, outcomes) ==
  IF ~api_key THEN products
  ELSE LET enriched == [i \in 1..Len(products) |->
                          [product |-> EnrichOne(products[i], outcomes[i]),
                           ok |-> outcomes[i].search.ok]]
           kept == SelectSeq(enriched, LAMBDA e : e.ok)
       IN  [i \in 1..Len(kept) |-> kept[i].product]

\* SerpApiResearcher.enrich_product_data
EnrichProductData(api_key, products, outcomes) ==
  IF ~api_key THEN products
  ELSE [i \in 1..Len(products) |-> EnrichOne(products[i], outcomes[i])]

\* ------------------------------------------------ ProductResearchEngine helpers

\* Mutant: the values of one field that are present, a zero included.
PresentValues(products, field) ==
  SelectSeq([i \in 1..Len(products) |-> products[i][field]], LAMBDA x : x # NONE)

\* The truthy values of one field, in list order.
TruthyValues(products, field) ==
  SelectSeq([i \in 1..Len(products) |-> products[i][field]], Truthy)

\* min(s) and max(s) of a non-empty list.
MinSeq(s) == CHOOSE x \in {s[i] : i \in 1..Len(s)} : \A i \in 1..Len(s) : x <= s[i]

MaxSeq(s) == CHOOSE x \in {s[i] : i \in 1..Len(s)} : \A i \in 1..Len(s) : x >= s[i]

\* An average kept as the exact rational num/den.
Average(values, default) ==
  IF values # <<>> THEN [num |-> SumSeq(values), den |-> Len(values)]
  ELSE [num |-> default, den |-> 1]

\* Mutant: the empty-list default of the average volume is the 5000 that
\* calculate_score falls back to.
CalculateNicheContextDefault5000(products, params) ==
  [avg_price |-> [num |-> 10000, den |-> 1],
   avg_commission |-> [num |-> 50, den |-> 1],
   avg_search_volume |-> [num |-> 5000, den |-> 1]]

\* ProductResearchEngine._calculate_niche_context
CalculateNicheContext(products, params) ==
  IF products = <<>>
  THEN [avg_price |-> [num |-> 10000, den |-> 1],
        avg_commission |-> [num |-> 50, den |-> 1],
        avg_search_volume |-> [num |-> 1000, den |-> 1]]
  ELSE LET prices == TruthyValues(products, "price")
           commissions == TruthyValues(products, "commission_rate")
           volumes == TruthyValues(products, "search_volume")
       IN  [avg_price |-> Average(prices, 10000),
            avg_commission |-> Average(commissions, 50),
            avg_search_volume |-> Average(volumes, 1000),
            price_range |-> IF prices # <<>> THEN <<MinSeq(prices), MaxSeq(prices)>>
                            ELSE <<0, 100000>>,
            total_products |-> Len(products),
            niche |-> params.niche,
            category |-> params.product_category]

\* Mutant: every product is scored against an empty context, so calculate_score
\* falls back to its own default average search volume of 5000.
ScoreAllWithoutContext(products, niche_data) ==
  [i \in 1..Len(products) |->
     [products[i] EXCEPT !.research_score =
        calculate_score(products[i], [avg_search_volume |-> [num |-> 5000, den |-> 1]])]]

\* for product in all_products: product.research_score = calculate_score(...)
ScoreAll(products, niche_data) ==
  [i \in 1..Len(products) |->
     [products[i] EXCEPT !.research_score = calculate_score(products[i], niche_data)]]

\* Mutant: among equal scores the later element comes first (an unstable sort).
RankDescLaterFirst(products, i) ==
  1 + Cardinality({j \in 1..Len(products) :
                     \/ products[j].research_score > products[i].research_score
                     \/ (products[j].research_score = products[i].research_score /\ j > i)})

\* The position of products[i] after a stable sort by descending score: behind
\* every element of higher score and every earlier element of equal score.
RankDesc(products, i) ==
  1 + Cardinality({j \in 1..Len(products) :
                     \/ products[j].research_score > products[i].research_score
                     \/ (products[j].research_score = products[i].research_score /\ j < i)})

\* sorted(all_products, key=lambda p: p.research_score, reverse=True): stable.
SortedByScore(products) ==
  [k \in 1..Len(products) |->
     products[CHOOSE i \in 1..Len(products) : RankDesc(products, i) = k]]

\* sorted_products[:params.max_results]
LimitResults(sorted_products, params) == Take(sorted_products, params.max_results)

\* The except branch of research_products, and its early return without SerpAPI key.
ErrorEnvelope(message, duration_ms) ==
  [products |-> <<>>,
   session_data |-> [error |-> message, research_duration_ms |-> duration_ms]]

NoNetworksMessage == "No affiliate networks configured. Please add your affiliate network credentials first."

\* The success return of research_products (average_score is left out).
SuccessEnvelope(final_products, all_products, api_calls, api_sources, duration_ms, niche_data) ==
  [products |-> final_products,
   session_data |->
     [total_products_found |-> Len(all_products),
      products_returned |-> Len(final_products),
      top_product |-> IF final_products # <<>> THEN <<final_products[1]>> ELSE <<>>,
      api_calls_made |-> api_calls,
      api_sources |-> api_sources,
      research_duration_ms |-> duration_ms,
      data_source |-> "live_data",
      niche_insights |-> niche_data]]


\* ------------------------------------------------ rye_service.py (catalog scoring)
\* Components are in 1e-4 of the unit interval (1.0 = 10000), weights in
\* hundredths, so a weighted score is in 1e-4 points (100 points = 1000000);
\* intelligent_score and the score_breakdown entries are in tenths.  Prices are
\* in cents, ratingsTotal in tenths.

\* A JSON null: the key is present and its value is None.
NULL == -888888

Str_apple == <<"a", "p", "p", "l", "e">>
Str_sony == <<"s", "o", "n", "y">>
Str_nike == <<"n", "i", "k", "e">>
Str_adidas == <<"a", "d", "i", "d", "a", "s">>
Str_microsoft == <<"m", "i", "c", "r", "o", "s", "o", "f", "t">>
Str_google == <<"g", "o", "o", "g", "l", "e">>
Str_samsung == <<"s", "a", "m", "s", "u", "n", "g">>
Str_lg == <<"l", "g">>
Vendor_Acme == <<"A", "c", "m", "e">>
Vendor_Sony == <<"S", "o", "n", "y", " ", "I", "n", "c">>

WellKnownBrands ==
  {Str_apple, Str_sony, Str_nike, Str_amazon, Str_microsoft, Str_google, Str_samsung, Str_lg}

PremiumBrands ==
  {Str_apple, Str_sony, Str_nike, Str_adidas, Str_samsung, Str_lg, Str_microsoft, Str_google,
   Str_amazon}

\* round(x / unit) to the nearest integer, ties to the even one.
RoundTo(x, unit) ==
  LET q == x \div unit
      r == x % unit
  IN  IF 2 * r > unit \/ (2 * r = unit /\ q % 2 = 1) THEN q + 1 ELSE q

\* float(s.replace("$", "").replace(",", "")) in cents, NONE when float() raises;
\* for strings of digits, '.', '$' and ','.
RyeParsePrice(s) ==
  LET stripped == SelectSeq(s, LAMBDA c : c # "$" /\ c # ",")
  IN  IF stripped # <<>> /\ FloatParses(stripped) THEN FloatCents(stripped) ELSE NONE

\* product_price of _calculate_price_score.  A price is a dict holding a value
\* or only a displayValue, a bare string, or absent.
RyePriceOfPriceScore(product) ==
  CASE product.price.kind = "value" -> product.price.value
    [] product.price.kind = "display" -> RyeParsePrice(product.price.text)
    [] product.price.kind = "string" -> RyeParsePrice(product.price.text)
    [] OTHER -> NONE

\* product_price of _calculate_affiliate_potential_score: a bare string is not
\* read, and a displayValue that does not parse counts as 0.
RyePriceOfAffiliateScore(product) ==
  CASE product.price.kind = "value" -> product.price.value
    [] product.price.kind = "display" ->
         (IF RyeParsePrice(product.price.text) = NONE THEN 0
          ELSE RyeParsePrice(product.price.text))
    [] product.price.kind = "string" -> NONE
    [] OTHER -> 0

\* RyeGraphQLClient._calculate_availability_score; the quotient is exact for the
\* one or two variants of the products below.
RyeAvailabilityScore(product) ==
  IF product.variants # <<>>
  THEN LET available_variants == Len(SelectSeq(product.variants, LAMBDA v : v))
           total_variants == Len(product.variants)
       IN  8000 * (IF product.isAvailable THEN 1 ELSE 0)
           + (2000 * available_variants) \div total_variants
  ELSE IF product.isAvailable THEN 10000 ELSE 0

\* RyeGraphQLClient._calculate_price_score
RyePriceScore(product, avg_price) ==
  LET product_price == RyePriceOfPriceScore(product)
  IN  IF ~Truthy(product_price) \/ ~Truthy(avg_price) THEN 5000
      ELSE LET range_score == IF 2500 <= product_price /\ product_price <= 15000 THEN 10
                              ELSE IF 1500 <= product_price /\ product_price <= 30000 THEN 8
                              ELSE IF product_price < 1500 THEN 3
                              ELSE 6
               competitive_score == IF 10 * product_price <= 9 * avg_price THEN 10
                                    ELSE IF 10 * product_price <= 11 * avg_price THEN 8
                                    ELSE IF 10 * product_price <= 13 * avg_price THEN 5
                                    ELSE 2
           IN  range_score * 600 + competitive_score * 400

\* A value read with 'x and y': absent, null and 0 are falsy.
RyeTruthy(x) == x # NULL /\ Truthy(x)

\* RyeGraphQLClient._calculate_review_score
RyeReviewScore(product) ==
  IF RyeTruthy(product.ratingsTotal) /\ RyeTruthy(product.reviewsTotal)
  THEN LET rating == product.ratingsTotal
           review_count == product.reviewsTotal
           rating_score7 == IF rating > 0 THEN rating * 140 ELSE 4200
           volume_score == IF review_count >= 1000 THEN 10
                           ELSE IF review_count >= 100 THEN 8
                           ELSE IF review_count >= 50 THEN 6
                           ELSE IF review_count >= 10 THEN 4
                           ELSE 2
       IN  rating_score7 + volume_score * 300
  ELSE 5000

\* RyeGraphQLClient._calculate_market_position_score; total_vendors is NONE when
\* the market analysis has no vendor_analysis.
RyeMarketPositionScore(product, total_vendors) ==
  LET vendor_score == IF \E brand \in WellKnownBrands : Contains(Lower(product.vendor), brand)
                      THEN 8 ELSE 5
      vendors == IF total_vendors = NONE THEN 1 ELSE total_vendors
      category_score == IF vendors <= 5 THEN 10 ELSE IF vendors <= 10 THEN 7 ELSE 4
  IN  vendor_score * 600 + category_score * 400

\* RyeGraphQLClient._calculate_affiliate_potential_score
RyeAffiliatePotentialScore(product) ==
  LET product_price == RyePriceOfAffiliateScore(product)
  IN  IF ~Truthy(product_price) THEN 4000
      ELSE LET commission_score == IF 5000 <= product_price /\ product_price <= 20000 THEN 10
                                   ELSE IF 2500 <= product_price /\ product_price <= 50000 THEN 8
                                   ELSE IF product_price >= 50000 THEN 7
                                   ELSE 3
               features_score == IF product.featureBullets > 0 \/ product.specifications
                                 THEN 8 ELSE 4
           IN  commission_score * 700 + features_score * 300

\* RyeGraphQLClient._calculate_data_richness_score
RyeDataRichnessScore(product) ==
  LET data_factors == << product.title # <<>>, product.description, product.images > 0,
                         product.price.kind # "absent", product.vendor # <<>>,
                         product.featureBullets > 0, product.specifications,
                         product.categories >>
  IN  (10000 * Len(SelectSeq(data_factors, LAMBDA f : f))) \div Len(data_factors)

\* RyeGraphQLClient._calculate_brand_strength_score
RyeBrandStrengthScore(product) ==
  IF \E brand \in PremiumBrands :
       \/ Contains(Lower(product.vendor), brand)
       \/ Contains(Lower(product.title), brand)
  THEN 9000 ELSE 5000

\* RyeGraphQLClient._calculate_conversion_indicators, for a product whose
\* ratingsTotal and reviewsTotal are numbers or absent (absent reads as 0).
RyeConversionIndicators(product) ==
  LET review_count == IF product.reviewsTotal = NONE THEN 0 ELSE product.reviewsTotal
      rating == IF product.ratingsTotal = NONE THEN 0 ELSE product.ratingsTotal
      indicators == << IF review_count >= 100 THEN 10000 ELSE 5000,
                       IF rating >= 40 THEN 10000 ELSE 5000,
                       IF product.images >= 3 THEN 10000 ELSE 5000,
                       IF product.featureBullets >= 3 THEN 10000 ELSE 5000 >>
  IN  SumSeq(indicators) \div Len(indicators)

\* RyeGraphQLClient._calculate_marketplace_bonus, in 1e-4 points
RyeMarketplaceBonus(product) ==
  IF product.marketplace = "AMAZON" THEN 20000
  ELSE IF product.marketplace = "SHOPIFY" THEN 10000
  ELSE 0

\* weights of _apply_intelligent_scoring, in hundredths
RyeWeights ==
  [availability_score |-> 20, price_competitiveness |-> 18, affiliate_potential |-> 16,
   review_quality |-> 14, conversion_indicators |-> 12, market_position |-> 10,
   brand_strength |-> 6, data_richness |-> 4]

\* score_components of _apply_intelligent_scoring; an absent price_analysis
\* gives avg_price 0.
RyeScoreComponents(product, market_analysis) ==
  [availability_score |-> RyeAvailabilityScore(product),
   price_competitiveness |->
     RyePriceScore(product, IF market_analysis.avg_price = NONE THEN 0
                            ELSE market_analysis.avg_price),
   review_quality |-> RyeReviewScore(product),
   market_position |-> RyeMarketPositionScore(product, market_analysis.total_vendors),
   affiliate_potential |-> RyeAffiliatePotentialScore(product),
   data_richness |-> RyeDataRichnessScore(product),
   brand_strength |-> RyeBrandStrengthScore(product),
   conversion_indicators |-> RyeConversionIndicators(product)]

RECURSIVE WeightedTotal(_, _, _)
WeightedTotal(components, weights, names) ==
  IF names = {} THEN 0
  ELSE LET k == CHOOSE n \in names : TRUE
       IN  components[k] * weights[k] + WeightedTotal(components, weights, names \ {k})

\* final_score = min(weighted_score + marketplace_bonus, 100), in 1e-4 points
RyeFinalScore(product, market_analysis) ==
  LET score_components == RyeScoreComponents(product, market_analysis)
      weighted_score == WeightedTotal(score_components, RyeWeights, DOMAIN RyeWeights)
  IN  Min2(weighted_score + RyeMarketplaceBonus(product), 1000000)

\* difficulty and potential of _apply_intelligent_scoring
RyeLabels(final_score) ==
  IF final_score >= 800000 THEN [difficulty |-> "Easy", potential |-> "High"]
  ELSE IF final_score >= 600000 THEN [difficulty |-> "Medium", potential |-> "Good"]
  ELSE [difficulty |-> "Hard", potential |-> "Low"]

\* scored_product of _apply_intelligent_scoring (market_insights, rye_enhanced
\* and last_updated are left out).
RyeScoredProduct(product, market_analysis) ==
  LET score_components == RyeScoreComponents(product, market_analysis)
      final_score == RyeFinalScore(product, market_analysis)
  IN  [product |-> product,
       intelligent_score |-> RoundTo(final_score, 1000),
       difficulty |-> RyeLabels(final_score).difficulty,
       affiliate_potential |-> RyeLabels(final_score).potential,
       score_breakdown |-> [k \in DOMAIN score_components |-> RoundTo(score_components[k], 10)]]

\* The sort key of one scored product: (intelligent_score, affiliate_potential
\* of the breakdown), compared as a tuple.
RyeKeyGreater(a, b) ==
  \/ a.intelligent_score > b.intelligent_score
  \/ /\ a.intelligent_score = b.intelligent_score
     /\ a.score_breakdown.affiliate_potential > b.score_breakdown.affiliate_potential

\* The position of scored[i] after list.sort(key, reverse=True), which is stable.
RyeRank(scored, i) ==
  1 + Cardinality({j \in 1..Len(scored) :
                     \/ RyeKeyGreater(scored[j], scored[i])
                     \/ (~RyeKeyGreater(scored[i], scored[j]) /\ j < i)})

\* A null ratingsTotal or reviewsTotal makes _calculate_conversion_indicators
\* compare None with a number, which raises TypeError out of the call.
RyeScoringRaises(products) ==
  \E i \in 1..Len(products) :
     products[i].reviewsTotal = NULL \/ products[i].ratingsTotal = NULL

\* RyeGraphQLClient._apply_intelligent_scoring
ApplyIntelligentScoring(products, market_analysis) ==
  LET scored == [i \in 1..Len(products) |-> RyeScoredProduct(products[i], market_analysis)]
  IN  [k \in 1..Len(scored) |-> scored[CHOOSE i \in 1..Len(scored) : RyeRank(scored, i) = k]]

\* ------------------------------------------------ rye_service.py (get_products_by_ids)

\* The Rye API limit on the number of products of one request.
RyeBatchLimit == 25

\* An entry of product_ids is a dict with an 'id' key, a plain string, or
\* anything else.
ValidEntry(item) == item.kind = "dict" \/ item.kind = "str"

\* product_ids after 'if len(product_ids) > 25: product_ids = product_ids[:25]'
LimitedIds(product_ids) ==
  IF Len(product_ids) > RyeBatchLimit THEN Take(product_ids, RyeBatchLimit) ELSE product_ids

\* validated_ids: the valid entries of the limited list, in order.
ValidatedIds(product_ids) == SelectSeq(LimitedIds(product_ids), ValidEntry)

\* The outcome of the k-th lookup of a call under a pattern of the remote
\* service: the product, a null productByID, or an exception of session.execute.
LookupOutcome(pattern, k) ==
  CASE pattern = "all_found" -> "found"
    [] pattern = "all_missing" -> "missing"
    [] pattern = "all_raise" -> "raises"
    [] pattern = "first_raises" -> (IF k = 1 THEN "raises" ELSE "found")
    [] OTHER -> (IF k = 2 THEN "missing" ELSE "found")

\* The lookups of the loop over validated_ids: one per validated id, whatever
\* the outcome of the earlier ones.
LookupsMade(validated_ids, pattern) ==
  [k \in 1..Len(validated_ids) |->
     [position |-> validated_ids[k].position, id |-> validated_ids[k].id,
      outcome |-> LookupOutcome(pattern, k)]]

\* RyeGraphQLClient.get_products_by_ids; session_ok = FALSE is a failure to
\* open the client session, caught by the outer except.
GetProductsByIds(product_ids, pattern, session_ok) ==
  LET validated_ids == ValidatedIds(product_ids)
      lookups == LookupsMade(validated_ids, pattern)
      found == SelectSeq(lookups, LAMBDA l : l.outcome = "found")
  IN  IF product_ids = <<>>
      THEN [success |-> FALSE, error |-> "Product IDs list cannot be empty", products |-> <<>>]
      ELSE IF validated_ids = <<>>
      THEN [success |-> FALSE, error |-> "No valid product IDs found", products |-> <<>>]
      ELSE IF ~session_ok
      THEN [success |-> FALSE, error |-> "exception", products |-> <<>>,
            requested_count |-> Len(LimitedIds(product_ids)), retrieved_count |-> 0]
      ELSE [success |-> TRUE,
            products |-> [k \in 1..Len(found) |-> found[k].id],
            requested_count |-> Len(validated_ids),
            retrieved_count |-> Len(found),
            requested_ids |-> [k \in 1..Len(validated_ids) |-> validated_ids[k].id]]

\* ------------------------------------------------ product_research_test.py

\* calculate_research_score, in tenths of a point; noise is random.uniform(-5, 5).
SampleResearchScore(product, noise) ==
  LET commission_score == Min2(product.commission_rate * 5, 500)
      trending == (product.trending_score * 3) \div 10
      rating_score == (product.rating - 30) * 10
      competition_factor == Max2(0, ((1000 - product.competition_score) * 2) \div 10)
      volume_score == Min2(product.search_volume \div 100, 300)
      total_score == commission_score + trending + rating_score + competition_factor
                     + volume_score + noise
  IN  Max2(0, Min2(1000, total_score))

\* One product dict of generate_sample_products, from the random draws v.
SampleProduct(v, i, niche) ==
  LET base == [title |-> Title_A,
               niche |-> niche,
               price |-> v.price,
               original_price |-> (v.price * 12) \div 10,
               commission_rate |-> v.commission_rate,
               commission_amount |-> ((v.price * v.commission_rate + 500) \div 1000) * 1000,
               rating |-> v.rating,
               review_count |-> v.review_count,
               trending_score |-> v.trending_score,
               competition_score |-> v.competition_score,
               research_score |-> 0,
               search_volume |-> v.search_volume,
               difficulty |-> 50,
               api_source |-> "test_data",
               external_id |-> i,
               oid |-> i]
  IN  [base EXCEPT !.research_score = SampleResearchScore(base, v.noise)]

\* len(templates) of every niche.
TemplateCount == 10

\* generate_sample_products: draws[i] are the random draws of product i.
GenerateSampleProducts(niche, max_results, draws) ==
  LET n == Min2(max_results, TemplateCount * 2)
      products == [i \in 1..n |-> SampleProduct(draws[i], i, niche)]
  IN  Take(SortedByScore(products), max_results)

\* The filter loop of main().
SampleFilter(products, min_commission, min_trending) ==
  SelectSeq(products, LAMBDA p : p.commission_rate >= min_commission
                                 /\ p.trending_score >= min_trending)

\* The response of main() on success.
SampleResponse(filtered_products) ==
  [products |-> filtered_products,
   session_data |->
     [total_products_found |-> Len(filtered_products),
      api_sources |-> <<"test_data">>,
      api_calls_made |-> 1]]

\* The error_response of main().
SampleErrorResponse(message) ==
  [error |-> message,
   products |-> <<>>,
   session_data |->
     [total_products_found |-> 0,
      average_score |-> 0,
      api_sources |-> <<>>,
      api_calls_made |-> 0,
      research_duration_ms |-> 0]]


\* ------------------------------------------------ inputs

\* Longest response of a source, in items, that is enumerated item by item.
MaxItems == 3

\* Length of the one long response (a source that returns more than it was asked for).
BulkLen == 51

\* ProductResearchParams values.  An absent product_category is <<>>.
EngineParams ==
  { [niche |-> Niche_Tech, product_category |-> <<>>, min_commission_rate |-> 30,
     min_trending_score |-> 500, max_results |-> 2, price_range |-> <<0, 1000000>>],
    [niche |-> Niche_fitness, product_category |-> Cat_Books, min_commission_rate |-> 30,
     min_trending_score |-> 0, max_results |-> 60, price_range |-> <<2000, 2500>>] }

\* Raw items of the shopping-search response.  An absent string key is <<>>,
\* an absent number NONE.
SerpItems ==
  { [title |-> Title_A, price |-> Price_25, compared_at_price |-> <<>>, original_price |-> Price_20,
     rating |-> 45, reviews |-> 1500, source |-> Src_Amazon, product_id |-> 1, malformed |-> FALSE],
    [title |-> Title_B, price |-> Price_1299, compared_at_price |-> Price_bad, original_price |-> <<>>,
     rating |-> 70, reviews |-> -5, source |-> Src_Walmart, product_id |-> 2, malformed |-> FALSE],
    [title |-> <<>>, price |-> Price_20, compared_at_price |-> <<>>, original_price |-> Price_30,
     rating |-> NONE, reviews |-> 50, source |-> Src_eBay, product_id |-> 3, malformed |-> FALSE] }

BulkItem == CHOOSE item \in SerpItems : item.product_id = 1

RECURSIVE SeqsUpTo(_, _)
SeqsUpTo(S, n) ==
  IF n = 0 THEN {<<>>}
  ELSE LET shorter == SeqsUpTo(S, n - 1)
       IN  shorter \cup {Append(s, x) : s \in {t \in shorter : Len(t) = n - 1}, x \in S}

\* What the shopping-search call can deliver.
SerpResponses ==
  {[ok |-> FALSE, items |-> <<>>]}
  \cup {[ok |-> TRUE, items |-> s] : s \in SeqsUpTo(SerpItems, MaxItems)}
  \cup {[ok |-> TRUE, items |-> [i \in 1..BulkLen |-> BulkItem]]}

\* Raw items of the marketplace response.
AmazonItems ==
  { [ASIN |-> 11, Title |-> Title_A,
     Listings |-> <<[Amount |-> 2499, SavingBasis |-> 3000], [Amount |-> 2400, SavingBasis |-> NONE]>>,
     StarRating |-> 45, Count |-> 6000, BrowseNode |-> Cat_Headphones,
     Classifications |-> <<Class_Choice>>, malformed |-> FALSE],
    [ASIN |-> 12, Title |-> Title_B, Listings |-> <<>>,
     StarRating |-> NONE, Count |-> NONE, BrowseNode |-> <<>>,
     Classifications |-> <<Class_Plain>>, malformed |-> FALSE],
    [ASIN |-> 13, Title |-> Title_B, Listings |-> <<[Amount |-> 2000, SavingBasis |-> NONE]>>,
     StarRating |-> 10, Count |-> 200, BrowseNode |-> Cat_Beauty,
     Classifications |-> <<>>, malformed |-> TRUE] }

\* What the marketplace search call can deliver.
AmazonResponses ==
  {[ok |-> FALSE, items |-> <<>>]}
  \cup {[ok |-> TRUE, items |-> s] : s \in SeqsUpTo(AmazonItems, MaxItems)}

NoResponse == [ok |-> FALSE, items |-> <<>>]

TopResult == [authority |-> TRUE, commercial |-> TRUE, affiliate |-> TRUE, review |-> TRUE]

PlainResult == [authority |-> FALSE, commercial |-> FALSE, affiliate |-> FALSE, review |-> TRUE]

\* The two lookups enrich_product_data makes for one product.
LookupOutcomes ==
  { [search |-> FailedLookup, comp |-> FailedLookup],
    [search |-> [ok |-> TRUE, total_results |-> 999, organic |-> <<PlainResult>>],
     comp |-> FailedLookup],
    [search |-> [ok |-> TRUE, total_results |-> 60000000, organic |-> [i \in 1..12 |-> TopResult]],
     comp |-> [ok |-> TRUE, total_results |-> 0, organic |-> <<TopResult, PlainResult>>]] }

\* The lookups of one enrichment pass over n products: independent per product
\* up to MaxItems products, the same for every product of a longer list.
EnrichOutcomes(n) ==
  IF n <= MaxItems THEN [1..n -> LookupOutcomes]
  ELSE {[i \in 1..n |-> o] : o \in LookupOutcomes}

\* Prices, in cents, of the products handed directly to calculate_score.
ScorePrices ==
  {0, 999, 1000, 1999, 2000, 10000, 20000, 20001, 50000, 50001, 50100, 250000, 450000, 460000}

\* Arguments of a direct call of ProductScoringEngine.calculate_score: one
\* product at its best on every metric, at each price, in two niches.
ScoreArgs ==
  { [product |->
       [title |-> Title_A, category |-> Str_General, niche |-> niche, price |-> price,
        original_price |-> NONE, commission_rate |-> 100, commission_amount |-> price * 100,
        rating |-> 50, review_count |-> 200, trending_score |-> 1000,
        competition_score |-> 0, research_score |-> 0, search_volume |-> 5000,
        difficulty |-> NONE, api_source |-> "serpapi_live", external_id |-> 1, oid |-> 1],
     niche_data |-> [avg_price |-> [num |-> 10000, den |-> 1],
                     avg_commission |-> [num |-> 50, den |-> 1],
                     avg_search_volume |-> [num |-> 5000, den |-> 1]]] :
    price \in ScorePrices, niche \in {Str_tech, Niche_fitness} }

\* Ratings (tenths of a star) and review counts of the raw items handed directly
\* to the adapters' trending and competition scores; NONE is an absent key.
ItemRatings == {NONE, -30, 0, 30, 45, 46, 50, 70}

ItemReviewCounts == {NONE, 5, 50, 100, 101, 1000, 1001, 5000, 5001}

\* Arguments of a direct call of an adapter's trending or competition score:
\* a raw item of that adapter's response.
ItemArgs ==
  { [adapter |-> "serp",
     item |-> [title |-> Title_A, price |-> Price_25, compared_at_price |-> <<>>,
               original_price |-> original, rating |-> rating, reviews |-> reviews,
               source |-> Src_Amazon, product_id |-> 1, malformed |-> FALSE]] :
    original \in {<<>>, Price_30}, rating \in ItemRatings, reviews \in ItemReviewCounts }
  \cup
  { [adapter |-> "amazon",
     item |-> [ASIN |-> 11, Title |-> Title_A, Listings |-> listings, StarRating |-> rating,
               Count |-> reviews, BrowseNode |-> <<>>, Classifications |-> <<class>>,
               malformed |-> FALSE]] :
    listings \in {<<[Amount |-> 2499, SavingBasis |-> 3000]>>,
                  <<[Amount |-> 2499, SavingBasis |-> NONE], [Amount |-> 2400, SavingBasis |-> NONE]>>},
    class \in {Class_Choice, Class_Plain},
    rating \in ItemRatings, reviews \in ItemReviewCounts }

\* Organic results of the competition lookup of a direct call of
\* enrich_product_data: none, fewer than ten, and more than ten with the
\* affiliate results inside or outside the first ten.
CompetitionResults ==
  { <<>>, <<TopResult, PlainResult>>,
    [i \in 1..6 |-> TopResult], [i \in 1..7 |-> TopResult], [i \in 1..12 |-> TopResult],
    [i \in 1..12 |-> IF i <= 10 THEN PlainResult ELSE TopResult] }

\* Arguments of a direct call of SerpApiResearcher.enrich_product_data: one
\* product at each competition score, with the two lookups made for it.
EnrichArgs ==
  { [products |->
       <<[title |-> Title_A, category |-> Str_General, niche |-> Niche_Tech, price |-> 2500,
          original_price |-> NONE, commission_rate |-> 40, commission_amount |-> 100000,
          rating |-> 45, review_count |-> 1500, trending_score |-> 850,
          competition_score |-> competition, research_score |-> 0, search_volume |-> NONE,
          difficulty |-> NONE, api_source |-> "serpapi_live", external_id |-> 1, oid |-> 1]>>,
     outcomes |-> <<[search |-> search, comp |-> comp]>>] :
    competition \in {0, 200, 500, 600, 1000},
    search \in {FailedLookup, [ok |-> TRUE, total_results |-> 999, organic |-> <<PlainResult>>]},
    comp \in {FailedLookup}
             \cup {[ok |-> TRUE, total_results |-> 0, organic |-> r] : r \in CompetitionResults} }

\* Raw catalog products handed to _apply_intelligent_scoring.  images and
\* featureBullets are list lengths; description, specifications and categories
\* record whether the value is truthy.
RyeProducts ==
  { [id |-> 1, title |-> Title_A, vendor |-> Vendor_Acme, marketplace |-> "OTHER",
     isAvailable |-> TRUE, variants |-> <<>>, price |-> [kind |-> "value", value |-> 2500],
     ratingsTotal |-> 40, reviewsTotal |-> 1000, images |-> 0, featureBullets |-> 0,
     description |-> FALSE, specifications |-> FALSE, categories |-> FALSE],
    [id |-> 2, title |-> Title_B, vendor |-> Vendor_Sony, marketplace |-> "AMAZON",
     isAvailable |-> TRUE, variants |-> <<>>, price |-> [kind |-> "value", value |-> 9900],
     ratingsTotal |-> 12000, reviewsTotal |-> 300, images |-> 5, featureBullets |-> 5,
     description |-> TRUE, specifications |-> TRUE, categories |-> TRUE],
    [id |-> 3, title |-> Title_A, vendor |-> Vendor_Acme, marketplace |-> "SHOPIFY",
     isAvailable |-> FALSE, variants |-> <<TRUE, FALSE>>,
     price |-> [kind |-> "display", text |-> Price_1299],
     ratingsTotal |-> NONE, reviewsTotal |-> NONE, images |-> 3, featureBullets |-> 3,
     description |-> TRUE, specifications |-> FALSE, categories |-> FALSE],
    [id |-> 4, title |-> <<>>, vendor |-> <<>>, marketplace |-> "OTHER",
     isAvailable |-> FALSE, variants |-> <<>>, price |-> [kind |-> "string", text |-> Price_25],
     ratingsTotal |-> 0, reviewsTotal |-> 5, images |-> 0, featureBullets |-> 0,
     description |-> FALSE, specifications |-> FALSE, categories |-> FALSE],
    [id |-> 5, title |-> Title_B, vendor |-> Vendor_Acme, marketplace |-> "AMAZON",
     isAvailable |-> TRUE, variants |-> <<>>, price |-> [kind |-> "absent"],
     ratingsTotal |-> 45, reviewsTotal |-> NULL, images |-> 1, featureBullets |-> 0,
     description |-> TRUE, specifications |-> FALSE, categories |-> TRUE] }

\* The market analyses handed to _apply_intelligent_scoring: the empty dict, a
\* small market at an average price of $25 and a crowded one at $100.
RyeMarketAnalyses ==
  { [avg_price |-> NONE, total_vendors |-> NONE],
    [avg_price |-> 2500, total_vendors |-> 1],
    [avg_price |-> 10000, total_vendors |-> 12] }

\* The longest product list handed to _apply_intelligent_scoring.
MaxScored == 2

\* Arguments of a direct call of RyeGraphQLClient._apply_intelligent_scoring.
ScoringArgs ==
  { [products |-> products, market_analysis |-> market_analysis] :
    products \in SeqsUpTo(RyeProducts, MaxScored), market_analysis \in RyeMarketAnalyses }

\* The longest short list and the length of the long lists of product ids.
MaxIds == 2

LongIdsLen == 27

\* Lists of entries: every short list of the three kinds of entry, and long
\* lists that are all valid, start with an invalid entry, or hold their only
\* valid entry at the end.  An entry carries its position in the list.
IdLists ==
  { [k \in 1..Len(kinds) |-> [kind |-> kinds[k], id |-> 100 + k, position |-> k]] :
    kinds \in SeqsUpTo({"dict", "str", "invalid"}, MaxIds)
             \cup { [k \in 1..LongIdsLen |-> "str"],
                    [k \in 1..LongIdsLen |-> IF k = 1 THEN "invalid" ELSE "dict"],
                    [k \in 1..LongIdsLen |-> IF k = LongIdsLen THEN "str" ELSE "invalid"] } }

\* Arguments of a direct call of RyeGraphQLClient.get_products_by_ids, with
\* the behaviour of the remote service during the call.
IdsArgs ==
  { [product_ids |-> ids, pattern |-> pattern, session_ok |-> ok] :
    ids \in IdLists,
    pattern \in {"all_found", "all_missing", "all_raise", "first_raises", "second_missing"},
    ok \in BOOLEAN }

\* Arguments of a direct call of an adapter's _get_amazon_commission_rate.
LookupArgs ==
  { [adapter |-> adapter, category |-> category] :
    adapter \in {"amazon", "serp"},
    category \in {Cat_Headphones, Cat_Books, Cat_Beauty, Str_General, Str_electronics} }

\* The JSON read by the sample-data entry point; empty_input is an empty stdin.
SampleParams ==
  { [empty_input |-> TRUE, niche |-> Niche_Tech, max_results |-> 10,
     min_commission_rate |-> 30, min_trending_score |-> 500],
    [empty_input |-> FALSE, niche |-> Niche_Tech, max_results |-> 1,
     min_commission_rate |-> 30, min_trending_score |-> 500],
    [empty_input |-> FALSE, niche |-> Niche_fitness, max_results |-> 2,
     min_commission_rate |-> 50, min_trending_score |-> 500] }

\* The random draws of one sample product.
SampleDraws ==
  { [price |-> 7999, commission_rate |-> 120, rating |-> 50, review_count |-> 2000,
     trending_score |-> 950, competition_score |-> 200, search_volume |-> 50000, noise |-> 50],
    [price |-> 1999, commission_rate |-> 30, rating |-> 35, review_count |-> 50,
     trending_score |-> 400, competition_score |-> 800, search_volume |-> 1000, noise |-> -50],
    [price |-> 2499, commission_rate |-> 75, rating |-> 40, review_count |-> 300,
     trending_score |-> 500, competition_score |-> 500, search_volume |-> 20000, noise |-> 0] }


\* ------------------------------------------------ state

VARIABLES
  entry,            \* which entry point runs: "engine" (product_research_engine.py),
                    \* "sample" (product_research_test.py), or a direct call of
                    \* "calculate_score", "commission_rate", "trending_score",
                    \* "competition_score", "enrich_product_data",
                    \* "apply_intelligent_scoring" or "get_products_by_ids"
  args,             \* the arguments of a direct call
  pc,               \* position of the invocation; "done" after main() printed its
                    \* result, "aborted" after the except branch of main()
  params,           \* ProductResearchParams / the JSON read from stdin
  serp_key,         \* SerpApiResearcher.api_key is set
  amazon_api,       \* AmazonProductResearcher.amazon_api is not None
  serp_response,    \* the raw response the primary fetch received
  amazon_response,  \* the raw response the fallback fetch received
  all_products,
  api_sources,
  api_calls,
  niche_data,
  sorted_products,
  final_products,
  result,           \* what research_products, or the direct call, returned
  clock,            \* time.time()
  start_time,
  fetch_log,        \* the adapter calls made so far, in order, with what each returned
  enrich_log,       \* the calls of enrich_product_data so far: the list handed in and
                    \* the lookups made for each of its products
  lookup_log,       \* the productByID lookups get_products_by_ids made, in order
  exception,        \* the exception caught by research_products, "none" if none was raised
  stdout,           \* the JSON object printed by main()
  exit_status       \* the process exit status, NONE while running

vars == <<entry, args, pc, params, serp_key, amazon_api, serp_response, amazon_response,
          all_products, api_sources, api_calls, niche_data, sorted_products,
          final_products, result, clock, start_time, fetch_log, enrich_log,
          lookup_log, exception, stdout, exit_status>>

Nothing == [none |-> TRUE]

Init ==
  /\ entry \in {"engine", "sample", "calculate_score", "commission_rate", "trending_score",
                "competition_score", "enrich_product_data", "apply_intelligent_scoring",
                "get_products_by_ids"}
  /\ pc = "start"
  /\ params \in (IF entry = "engine" THEN EngineParams
                 ELSE IF entry = "sample" THEN SampleParams ELSE {Nothing})
  /\ args \in (IF entry = "calculate_score" THEN ScoreArgs
               ELSE IF entry = "commission_rate" THEN LookupArgs
               ELSE IF entry \in {"trending_score", "competition_score"} THEN ItemArgs
               ELSE IF entry = "enrich_product_data" THEN EnrichArgs
               ELSE IF entry = "apply_intelligent_scoring" THEN ScoringArgs
               ELSE IF entry = "get_products_by_ids" THEN IdsArgs
               ELSE {Nothing})
  /\ serp_key \in (IF entry = "engine" THEN BOOLEAN ELSE {FALSE})
  /\ amazon_api \in (IF entry = "engine" THEN BOOLEAN ELSE {FALSE})
  /\ serp_response = NoResponse
  /\ amazon_response = NoResponse
  /\ all_products = <<>>
  /\ api_sources = <<>>
  /\ api_calls = 0
  /\ niche_data = Nothing
  /\ sorted_products = <<>>
  /\ final_products = <<>>
  /\ result = Nothing
  /\ clock = 0
  /\ start_time = 0
  /\ fetch_log = <<>>
  /\ enrich_log = <<>>
  /\ lookup_log = <<>>
  /\ exception = "none"
  /\ stdout = Nothing
  /\ exit_status = NONE

\* The object identity of the products of one adapter result, in fetch order.
Collected(products) == [i \in 1..Len(products) |-> [products[i] EXCEPT !.oid = i]]

Elapsed == clock - start_time

EngineInputs == <<entry, args, params, serp_key, amazon_api>>

\* ------------------------------------------------ main() of product_research_engine.py

\* Mutant: a consulted source is put in front of the list.
RecordSourceFirst(sources, name) == <<name>> \o sources

\* api_sources.append(name)
RecordSource(sources, name) == Append(sources, name)

\* Mutant: the enrichment pass counts as one call.
CallsAfterEnrichmentOne(calls, products) == calls + 1

\* api_calls += len(all_products), after the enrichment pass
CallsAfterEnrichment(calls, products) == calls + Len(products)

\* research_products_async builds the engine and research_products starts its timer.
EngineStart ==
  /\ entry = "engine" /\ pc = "start"
  /\ pc' = "primary"
  /\ start_time' = clock
  /\ UNCHANGED <<EngineInputs, lookup_log, exception, serp_response, amazon_response, all_products, api_sources,
                 api_calls, niche_data, sorted_products, final_products, result, clock,
                 fetch_log, enrich_log, stdout, exit_status>>

\* An exception that reaches main() (the AmazonApi constructor raising on the
\* configured credentials): the except branch of main().
MainException ==
  /\ entry = "engine" /\ pc = "start" /\ amazon_api
  /\ stdout' = [products |-> <<>>,
                session_data |-> [error |-> "exception", research_duration_ms |-> 0]]
  /\ exit_status' = 1
  /\ pc' = "aborted"
  /\ UNCHANGED <<EngineInputs, lookup_log, exception, serp_response, amazon_response, all_products, api_sources,
                 api_calls, niche_data, sorted_products, final_products, result, clock,
                 start_time, fetch_log, enrich_log>>

\* ------------------------------------------------ ProductResearchEngine.research_products

PrimaryFetch ==
  /\ entry = "engine" /\ pc = "primary" /\ serp_key
  /\ \E response \in SerpResponses :
       LET serp_products == Collected(SerpSearchProducts(serp_key, response, params))
       IN  /\ serp_response' = response
           /\ all_products' = all_products \o serp_products
           /\ fetch_log' = Append(fetch_log, [source |-> "serp", returned |-> Len(serp_products),
                                              products |-> serp_products])
  /\ api_sources' = RecordSource(api_sources, "serpapi_shopping")
  /\ api_calls' = api_calls + 1
  /\ clock' = clock + 1
  /\ pc' = "fallback"
  /\ UNCHANGED <<EngineInputs, lookup_log, exception, amazon_response, niche_data, sorted_products, final_products,
                 result, start_time, enrich_log, stdout, exit_status>>

NoSourceConfigured ==
  /\ entry = "engine" /\ pc = "primary" /\ ~serp_key
  /\ result' = ErrorEnvelope(NoNetworksMessage, Elapsed)
  /\ pc' = "returned"
  /\ UNCHANGED <<EngineInputs, lookup_log, exception, serp_response, amazon_response, all_products, api_sources,
                 api_calls, niche_data, sorted_products, final_products, clock, start_time,
                 fetch_log, enrich_log, stdout, exit_status>>

\* Mutant: the fallback runs whenever the marketplace adapter is available.
FallbackConditionAlways == amazon_api

\* if not all_products and self.amazon_researcher.amazon_api
FallbackCondition == all_products = <<>> /\ amazon_api

FallbackFetch ==
  /\ entry = "engine" /\ pc = "fallback" /\ FallbackCondition
  /\ \E response \in AmazonResponses :
       LET amazon_products == Collected(AmazonSearchProducts(amazon_api, response, params))
       IN  /\ amazon_response' = response
           /\ all_products' = all_products \o amazon_products
           /\ fetch_log' = Append(fetch_log, [source |-> "amazon", returned |-> Len(amazon_products),
                                              products |-> amazon_products])
  /\ api_sources' = RecordSource(api_sources, "amazon")
  /\ api_calls' = api_calls + 1
  /\ clock' = clock + 1
  /\ pc' = "enrich"
  /\ UNCHANGED <<EngineInputs, lookup_log, exception, serp_response, niche_data, sorted_products, final_products,
                 result, start_time, enrich_log, stdout, exit_status>>

FallbackSkip ==
  /\ entry = "engine" /\ pc = "fallback" /\ ~FallbackCondition
  /\ pc' = "enrich"
  /\ UNCHANGED <<EngineInputs, lookup_log, exception, serp_response, amazon_response, all_products, api_sources,
                 api_calls, niche_data, sorted_products, final_products, result, clock,
                 start_time, fetch_log, enrich_log, stdout, exit_status>>

EnrichCondition == serp_key /\ all_products # <<>>

Enrich ==
  /\ entry = "engine" /\ pc = "enrich" /\ EnrichCondition
  /\ \E outcomes \in EnrichOutcomes(Len(all_products)) :
       /\ all_products' = EnrichProductData(serp_key, all_products, outcomes)
       /\ enrich_log' = Append(enrich_log, [products |-> all_products, lookups |-> outcomes])
  /\ api_sources' = IF \E i \in 1..Len(api_sources) : api_sources[i] = "serpapi_enrichment"
                    THEN api_sources ELSE Append(api_sources, "serpapi_enrichment")
  /\ api_calls' = CallsAfterEnrichment(api_calls, all_products')
  /\ clock' = clock + 1
  /\ pc' = "context"
  /\ UNCHANGED <<EngineInputs, lookup_log, exception, serp_response, amazon_response, niche_data, sorted_products,
                 final_products, result, start_time, fetch_log, stdout, exit_status>>

EnrichSkip ==
  /\ entry = "engine" /\ pc = "enrich" /\ ~EnrichCondition
  /\ pc' = "context"
  /\ UNCHANGED <<EngineInputs, lookup_log, exception, serp_response, amazon_response, all_products, api_sources,
                 api_calls, niche_data, sorted_products, final_products, result, clock,
                 start_time, fetch_log, enrich_log, stdout, exit_status>>

Context ==
  /\ entry = "engine" /\ pc = "context"
  /\ niche_data' = CalculateNicheContext(all_products, params)
  /\ pc' = "score"
  /\ UNCHANGED <<EngineInputs, lookup_log, exception, serp_response, amazon_response, all_products, api_sources,
                 api_calls, sorted_products, final_products, result, clock, start_time,
                 fetch_log, enrich_log, stdout, exit_status>>

Score ==
  /\ entry = "engine" /\ pc = "score"
  /\ all_products' = ScoreAll(all_products, niche_data)
  /\ pc' = "rank"
  /\ UNCHANGED <<EngineInputs, lookup_log, exception, serp_response, amazon_response, api_sources, api_calls,
                 niche_data, sorted_products, final_products, result, clock, start_time,
                 fetch_log, enrich_log, stdout, exit_status>>

Rank ==
  /\ entry = "engine" /\ pc = "rank"
  /\ sorted_products' = SortedByScore(all_products)
  /\ pc' = "truncate"
  /\ UNCHANGED <<EngineInputs, lookup_log, exception, serp_response, amazon_response, all_products, api_sources,
                 api_calls, niche_data, final_products, result, clock, start_time,
                 fetch_log, enrich_log, stdout, exit_status>>

Truncate ==
  /\ entry = "engine" /\ pc = "truncate"
  /\ final_products' = LimitResults(sorted_products, params)
  /\ clock' = clock + 1
  /\ pc' = "emit"
  /\ UNCHANGED <<EngineInputs, lookup_log, exception, serp_response, amazon_response, all_products, api_sources,
                 api_calls, niche_data, sorted_products, result, start_time,
                 fetch_log, enrich_log, stdout, exit_status>>

Emit ==
  /\ entry = "engine" /\ pc = "emit"
  /\ result' = SuccessEnvelope(final_products, all_products, api_calls, api_sources,
                               Elapsed, niche_data)
  /\ pc' = "returned"
  /\ UNCHANGED <<EngineInputs, lookup_log, exception, serp_response, amazon_response, all_products, api_sources,
                 api_calls, niche_data, sorted_products, final_products, clock, start_time,
                 fetch_log, enrich_log, stdout, exit_status>>

TryStages == {"primary", "fallback", "enrich", "context", "score", "rank", "truncate"}

ExceptionMessages == {"exception"}

\* Mutant: the except branch hands back what was collected so far.
HandleExceptionPartial(e) ==
  [products |-> all_products,
   session_data |-> [error |-> e, research_duration_ms |-> Elapsed]]

\* What the except branch of research_products returns for exception e.
HandleException(e) == ErrorEnvelope(e, Elapsed)

\* An exception raised inside the try block of research_products, at any stage.
Raise ==
  /\ entry = "engine" /\ pc \in TryStages
  /\ \E e \in ExceptionMessages :
       /\ exception' = e
       /\ result' = HandleException(e)
  /\ pc' = "returned"
  /\ UNCHANGED <<EngineInputs, lookup_log, serp_response, amazon_response, all_products, api_sources,
                 api_calls, niche_data, sorted_products, final_products, clock, start_time,
                 fetch_log, enrich_log, stdout, exit_status>>

\* main() serializes what research_products returned, prints it and ends normally.
MainPrint ==
  /\ entry = "engine" /\ pc = "returned"
  /\ stdout' = [products |-> result.products, session_data |-> result.session_data]
  /\ exit_status' = 0
  /\ pc' = "done"
  /\ UNCHANGED <<EngineInputs, lookup_log, exception, serp_response, amazon_response, all_products, api_sources,
                 api_calls, niche_data, sorted_products, final_products, result, clock,
                 start_time, fetch_log, enrich_log>>

\* ------------------------------------------------ main() of product_research_test.py

SampleMaxResults == Min2(params.max_results, 50)

SampleInputError ==
  /\ entry = "sample" /\ pc = "start" /\ params.empty_input
  /\ stdout' = SampleErrorResponse("No input data provided")
  /\ exit_status' = 1
  /\ pc' = "aborted"
  /\ UNCHANGED <<EngineInputs, lookup_log, exception, serp_response, amazon_response, all_products, api_sources,
                 api_calls, niche_data, sorted_products, final_products, result, clock,
                 start_time, fetch_log, enrich_log>>

SampleGenerate ==
  /\ entry = "sample" /\ pc = "start" /\ ~params.empty_input
  /\ \E draws \in [1..Min2(SampleMaxResults * 2, TemplateCount * 2) -> SampleDraws] :
       all_products' = GenerateSampleProducts(params.niche, SampleMaxResults * 2, draws)
  /\ pc' = "filter"
  /\ UNCHANGED <<EngineInputs, lookup_log, exception, serp_response, amazon_response, api_sources,
                 api_calls, niche_data, sorted_products, final_products, result, clock,
                 start_time, fetch_log, enrich_log, stdout, exit_status>>

\* filtered_products after the filter loop and after filtered_products[:max_results].
SampleFiltered ==
  Take(SampleFilter(all_products, params.min_commission_rate, params.min_trending_score),
       SampleMaxResults)

SampleRespond ==
  /\ entry = "sample" /\ pc = "filter"
  /\ final_products' = SampleFiltered
  /\ stdout' = SampleResponse(SampleFiltered)
  /\ exit_status' = 0
  /\ pc' = "done"
  /\ UNCHANGED <<EngineInputs, lookup_log, exception, serp_response, amazon_response, all_products, api_sources,
                 api_calls, niche_data, sorted_products, result, clock,
                 start_time, fetch_log, enrich_log>>

\* ------------------------------------------------ direct calls

\* ProductScoringEngine.calculate_score called on one product: the scores dict,
\* the weighted sum (1e-6 points) and the returned value (1e-7 points).
CallCalculateScore ==
  /\ entry = "calculate_score" /\ pc = "start"
  /\ result' = [scores |-> SubScores(args.product, args.niche_data),
                final_score |-> WeightedSum(SubScores(args.product, args.niche_data)),
                returned |-> calculate_score(args.product, args.niche_data)]
  /\ pc' = "called"
  /\ UNCHANGED <<EngineInputs, lookup_log, exception, serp_response, amazon_response, all_products, api_sources,
                 api_calls, niche_data, sorted_products, final_products, clock,
                 start_time, fetch_log, enrich_log, stdout, exit_status>>

\* _get_amazon_commission_rate of either adapter called on one category.
CallCommissionRate ==
  /\ entry = "commission_rate" /\ pc = "start"
  /\ result' = IF args.adapter = "amazon" THEN AmazonGetCommissionRate(args.category)
                ELSE SerpGetAmazonCommissionRate(args.category)
  /\ pc' = "called"
  /\ UNCHANGED <<EngineInputs, lookup_log, exception, serp_response, amazon_response, all_products, api_sources,
                 api_calls, niche_data, sorted_products, final_products, clock,
                 start_time, fetch_log, enrich_log, stdout, exit_status>>

\* The trending score of either adapter called on one raw item.
CallTrendingScore ==
  /\ entry = "trending_score" /\ pc = "start"
  /\ result' = IF args.adapter = "amazon" THEN AmazonTrendingScore(args.item)
                ELSE TrendingScoreShopping(args.item)
  /\ pc' = "called"
  /\ UNCHANGED <<EngineInputs, lookup_log, exception, serp_response, amazon_response, all_products, api_sources,
                 api_calls, niche_data, sorted_products, final_products, clock,
                 start_time, fetch_log, enrich_log, stdout, exit_status>>

\* The competition score of either adapter called on one raw item.
CallCompetitionScore ==
  /\ entry = "competition_score" /\ pc = "start"
  /\ result' = IF args.adapter = "amazon" THEN AmazonCompetitionScore(args.item)
                ELSE CompetitionScoreShopping(args.item)
  /\ pc' = "called"
  /\ UNCHANGED <<EngineInputs, lookup_log, exception, serp_response, amazon_response, all_products, api_sources,
                 api_calls, niche_data, sorted_products, final_products, clock,
                 start_time, fetch_log, enrich_log, stdout, exit_status>>

\* SerpApiResearcher.enrich_product_data called on a list of products, with an
\* api key configured.
CallEnrichProductData ==
  /\ entry = "enrich_product_data" /\ pc = "start"
  /\ result' = EnrichProductData(TRUE, args.products, args.outcomes)
  /\ pc' = "called"
  /\ UNCHANGED <<EngineInputs, lookup_log, exception, serp_response, amazon_response, all_products, api_sources,
                 api_calls, niche_data, sorted_products, final_products, clock,
                 start_time, fetch_log, enrich_log, stdout, exit_status>>

\* RyeGraphQLClient._apply_intelligent_scoring called on a list of raw
\* products: it returns the scored list or raises.
CallApplyIntelligentScoring ==
  /\ entry = "apply_intelligent_scoring" /\ pc = "start"
  /\ result' = IF RyeScoringRaises(args.products)
                THEN [raised |-> TRUE, products |-> <<>>]
                ELSE [raised |-> FALSE,
                      products |-> ApplyIntelligentScoring(args.products, args.market_analysis)]
  /\ pc' = "called"
  /\ UNCHANGED <<EngineInputs, lookup_log, exception, serp_response, amazon_response, all_products, api_sources,
                 api_calls, niche_data, sorted_products, final_products, clock,
                 start_time, fetch_log, enrich_log, stdout, exit_status>>

\* RyeGraphQLClient.get_products_by_ids called on a list of entries.
CallGetProductsByIds ==
  /\ entry = "get_products_by_ids" /\ pc = "start"
  /\ result' = GetProductsByIds(args.product_ids, args.pattern, args.session_ok)
  /\ lookup_log' = IF args.session_ok
                    THEN LookupsMade(ValidatedIds(args.product_ids), args.pattern)
                    ELSE <<>>
  /\ pc' = "called"
  /\ UNCHANGED <<EngineInputs, exception, serp_response, amazon_response, all_products, api_sources,
                 api_calls, niche_data, sorted_products, final_products, clock,
                 start_time, fetch_log, enrich_log, stdout, exit_status>>

Next ==
  \/ EngineStart
  \/ MainException
  \/ PrimaryFetch
  \/ NoSourceConfigured
  \/ FallbackFetch
  \/ FallbackSkip
  \/ Enrich
  \/ EnrichSkip
  \/ Context
  \/ Score
  \/ Rank
  \/ Truncate
  \/ Emit
  \/ Raise
  \/ MainPrint
  \/ SampleInputError
  \/ SampleGenerate
  \/ SampleRespond
  \/ CallCalculateScore
  \/ CallCommissionRate
  \/ CallTrendingScore
  \/ CallCompetitionScore
  \/ CallEnrichProductData
  \/ CallApplyIntelligentScoring
  \/ CallGetProductsByIds

Spec == Init /\ [][Next]_vars

\* ================================================================ claims

Returned == entry = "engine" /\ pc \in {"returned", "done"}

IsErrorEnvelope(r) == "error" \in DOMAIN r.session_data

SuccessReturned == Returned /\ ~IsErrorEnvelope(result)

\* all_products holds scored products.
Scored == entry = "engine" /\ pc \in {"rank", "truncate", "emit"}

InRange(x, lo, hi) == lo <= x /\ x <= hi

\* C1: for every product handed to calculate_score, also one with out-of-range
\* raw inputs (rating 7, review_count -5), the returned research_score and each
\* of the seven sub-scores lie in [0,100].
C1_ScoresInRange ==
  Scored =>
    \A i \in 1..Len(all_products) :
      /\ InRange(all_products[i].research_score, 0, 1000000000)
      /\ \A m \in Metrics : InRange(SubScores(all_products[i], niche_data)[m], 0, 1000000)

\* C2: research_products never lets an exception escape: once it has returned
\* there is an envelope, and when an exception was raised in the try block the
\* envelope has no products and carries the exception's message and the
\* elapsed duration.
C2_ExceptionEnvelope ==
  Returned =>
    /\ result # Nothing
    /\ exception # "none" =>
         /\ result.products = <<>>
         /\ DOMAIN result.session_data = {"error", "research_duration_ms"}
         /\ result.session_data.error = exception
         /\ result.session_data.research_duration_ms = clock - start_time

\* C2 witness: an exception was raised after products had been collected and enriched.
C2_Witness ==
  /\ Returned /\ exception # "none"
  /\ all_products # <<>> /\ enrich_log # <<>>

\* C3: the invocation ends in the "no data source configured" envelope only when
\* every adapter is unavailable; with the marketplace adapter available it does not.
C3_NoSourceOnlyWhenAllUnavailable ==
  (Returned /\ IsErrorEnvelope(result) /\ result.session_data.error = NoNetworksMessage)
    => (~serp_key /\ ~amazon_api)

PastFallback ==
  entry = "engine" /\ (pc \in {"enrich", "context", "score", "rank", "truncate", "emit"}
                       \/ SuccessReturned)

\* C4: the secondary adapter is called at most once, only after the primary fetch
\* has returned zero products and only when it is available; and once the
\* fallback stage is over it has been called whenever those conditions held.
C4_FallbackRule ==
  /\ Len(fetch_log) <= 2
  /\ \A j \in 1..Len(fetch_log) :
       fetch_log[j].source = "amazon" =>
         /\ j = 2
         /\ fetch_log[1].source = "serp" /\ fetch_log[1].returned = 0
         /\ amazon_api
  /\ PastFallback =>
       /\ fetch_log # <<>> /\ fetch_log[1].source = "serp"
       /\ (fetch_log[1].returned = 0 /\ amazon_api) =>
            (Len(fetch_log) = 2 /\ fetch_log[2].source = "amazon")

\* C4 witness: the fallback was called and delivered products that were returned.
C4_Witness ==
  /\ SuccessReturned /\ Len(fetch_log) = 2
  /\ fetch_log[2].source = "amazon" /\ fetch_log[2].returned > 1
  /\ result.products # <<>>

\* C5: the products of a success envelope are in non-increasing order of
\* research_score, and products of equal score are in the order they were fetched.
C5_StableDescending ==
  SuccessReturned =>
    \A i, j \in 1..Len(result.products) :
      i < j =>
        /\ result.products[i].research_score >= result.products[j].research_score
        /\ result.products[i].research_score = result.products[j].research_score
             => result.products[i].oid < result.products[j].oid

\* C5 witness: three products returned, the one fetched second ranked first, and
\* the other two, of equal score, in fetch order behind it.
C5_Witness ==
  /\ SuccessReturned /\ Len(result.products) = 3
  /\ result.products[1].oid = 2 /\ result.products[2].oid = 1 /\ result.products[3].oid = 3
  /\ result.products[1].research_score > result.products[2].research_score
  /\ result.products[2].research_score = result.products[3].research_score


\* C6: the number of products in a success envelope is
\* min(number collected, max_results, 50): never more than the hard cap of 50.
C6_HardCap ==
  SuccessReturned =>
    Len(result.products) = Min2(Len(all_products), Min2(params.max_results, 50))

\* The sample-data entry point ended with its success response.
SampleDone == entry = "sample" /\ pc = "done"

\* C7: total_products_found is the number of products collected before the
\* truncation to max_results, in research_products and in the sample-data main().
C7_TotalIsPreTruncation ==
  /\ SuccessReturned => result.session_data.total_products_found = Len(all_products)
  /\ SampleDone =>
       stdout.session_data.total_products_found =
         Len(SampleFilter(all_products, params.min_commission_rate, params.min_trending_score))

\* The three conditions of the criteria filter, bounds inclusive.
PassesCriteria(product) ==
  /\ product.commission_rate >= params.min_commission_rate
  /\ product.trending_score >= params.min_trending_score
  /\ params.price_range[1] <= product.price
  /\ product.price <= params.price_range[2]

ExternalIds(products) == [i \in 1..Len(products) |-> products[i].external_id]

\* The raw items of a response that parse, parsed, in response order.
SerpParsed(response) ==
  LET items == SelectSeq(response.items, ShoppingItemParses)
  IN  [i \in 1..Len(items) |-> ParseShoppingItem(items[i], params)]

AmazonParsed(response) ==
  LET items == SelectSeq(response.items, LAMBDA item : ~item.malformed)
  IN  [i \in 1..Len(items) |-> ParseAmazonItem(items[i], params)]

\* C8: every product an adapter returned, and every product of the final
\* envelope, satisfies the three conditions; and an adapter returns every parsed
\* product that satisfies them (none is rejected), in response order.
C8_CriteriaFilter ==
  /\ entry = "engine" => \A i \in 1..Len(all_products) : PassesCriteria(all_products[i])
  /\ SuccessReturned => \A i \in 1..Len(result.products) : PassesCriteria(result.products[i])
  /\ (entry = "engine" /\ pc = "fallback" /\ serp_response.ok) =>
       ExternalIds(all_products) = ExternalIds(SelectSeq(SerpParsed(serp_response), PassesCriteria))
  /\ (entry = "engine" /\ pc = "enrich" /\ amazon_response.ok) =>
       ExternalIds(all_products) = ExternalIds(SelectSeq(AmazonParsed(amazon_response), PassesCriteria))

\* C8 witness: of three parsed items the adapter returned one whose commission
\* rate equals the minimum and dropped another.
C8_Witness ==
  /\ entry = "engine" /\ pc = "fallback"
  /\ Len(SerpParsed(serp_response)) = 3 /\ Len(all_products) = 2
  /\ \E i \in 1..2 : all_products[i].commission_rate = params.min_commission_rate
  /\ \E i \in 1..2 : all_products[i].price = params.price_range[2]

Ended == pc \in {"done", "aborted"}

\* The printed object reports an error, at the top level or in session_data.
ReportsError ==
  \/ "error" \in DOMAIN stdout
  \/ "error" \in DOMAIN stdout.session_data

\* C9: an entry point that ends in a fatal error prints an object with a
\* top-level error key, products = [] and exits with non-zero status; an error
\* is never printed together with exit status 0.
C9_FatalErrorContract ==
  (Ended /\ ReportsError) =>
    /\ "error" \in DOMAIN stdout
    /\ stdout.products = <<>>
    /\ exit_status # 0

\* C10: when every adapter consulted returned an empty list, the NicheContext is
\* exactly {avg_price: 100, avg_commission: 5.0, avg_search_volume: 1000},
\* enrichment is not run, and the envelope has no products and
\* total_products_found = 0.
C10_EmptyFetch ==
  (SuccessReturned /\ \A j \in 1..Len(fetch_log) : fetch_log[j].returned = 0) =>
    /\ DOMAIN result.session_data.niche_insights
         = {"avg_price", "avg_commission", "avg_search_volume"}
    /\ result.session_data.niche_insights.avg_price = [num |-> 10000, den |-> 1]
    /\ result.session_data.niche_insights.avg_commission = [num |-> 50, den |-> 1]
    /\ result.session_data.niche_insights.avg_search_volume = [num |-> 1000, den |-> 1]
    /\ enrich_log = <<>>
    /\ result.products = <<>>
    /\ result.session_data.total_products_found = 0

\* C10 witness: both adapters were consulted and both returned nothing.
C10_Witness ==
  /\ SuccessReturned /\ Len(fetch_log) = 2
  /\ \A j \in 1..2 : fetch_log[j].returned = 0
  /\ amazon_response.ok /\ Len(amazon_response.items) > 1

\* The products an adapter or the sample-data source has emitted.
Emitted ==
  IF (entry = "engine" /\ pc \in {"fallback", "enrich"}) \/ (entry = "sample" /\ pc = "filter")
  THEN all_products ELSE <<>>

\* C11: every product emitted by an adapter or by the sample-data source has
\* commission_amount = price x commission_rate / 100 rounded to 2 decimal places:
\* a whole number of cents, at most half a cent from the exact product.
C11_CommissionRounded ==
  \A i \in 1..Len(Emitted) :
    LET product == Emitted[i]
        exact == product.price * product.commission_rate
    IN  /\ product.commission_amount % 1000 = 0
        /\ product.commission_amount - exact <= 500
        /\ exact - product.commission_amount <= 500

\* The direct call of calculate_score has returned.
ScoreCalled == entry = "calculate_score" /\ pc = "called"

\* The product of the worked example: niche 'tech', price 100, every metric at its best.
WorkedExample == args.product.price = 10000 /\ args.product.niche = Str_tech

\* C12: for the worked example calculate_score computes the sub-scores
\* {commission 100, trending 100, competition 100, rating 100, volume 50,
\* price 100, review 100}, a weighted sum of 94.0, 103.4 after the tech bonus,
\* and returns 100.0.
C12_WorkedExample ==
  (ScoreCalled /\ WorkedExample) =>
    /\ result.scores = [commission_rate |-> 1000000, trending_score |-> 1000000,
                        competition_score |-> 1000000, rating_score |-> 1000000,
                        volume_score |-> 500000, price_score |-> 1000000,
                        review_score |-> 1000000]
    /\ result.final_score = 94000000
    /\ result.final_score * 11 = 1034000000
    /\ result.returned = 1000000000

\* The price sub-score as the claim states it, for a price in cents, in 1e-4 points.
StatedPriceScore(price) ==
  IF 2000 <= price /\ price <= 20000 THEN 1000000
  ELSE IF 1000 <= price /\ price <= 50000 THEN 800000
  ELSE IF price < 1000 THEN 300000
  ELSE IF 600000 - (price - 50000) >= 200000 THEN 600000 - (price - 50000)
  ELSE 200000

\* C13: the price sub-score is 100 on [20, 200], else 80 on [10, 500], else 30
\* below 10, else max(60 - (price - 500)/100, 20); 20 gives 100, 19.99 gives 80,
\* 10.0 gives 80, 9.99 gives 30, 501 gives 59.99; above 500 it is non-increasing
\* in price and never below 20.
C13_PriceScore ==
  ScoreCalled =>
    LET price == args.product.price
        score == result.scores.price_score
    IN  /\ score = StatedPriceScore(price)
        /\ price = 2000 => score = 1000000
        /\ price = 1999 => score = 800000
        /\ price = 1000 => score = 800000
        /\ price = 999 => score = 300000
        /\ price = 50100 => score = 599900
        /\ price > 50000 =>
             /\ score >= 200000
             /\ \A higher \in ScorePrices : higher >= price => PriceScore(higher) <= score

\* C13 witness: a call with price 501, past the good range and above the floor.
C13_Witness ==
  /\ ScoreCalled /\ args.product.price = 50100
  /\ result.scores.price_score = 599900

\* The direct call of a commission lookup has returned.
RateCalled == entry = "commission_rate" /\ pc = "called"

\* The table of the adapter that was called.
CalledTable ==
  IF args.adapter = "amazon" THEN AmazonCommissionRates ELSE SerpAmazonCommissionRates

\* Positions of the table entries whose key is a substring of the lowercased category.
MatchingEntries ==
  {i \in 1..Len(CalledTable) : Contains(Lower(args.category), CalledTable[i][1])}

\* C14: the lookup returns the rate of the first table entry whose key is a
\* substring of the lowercased category, 3.0 when none is; and
\* 'Wireless Headphones for Gaming' resolves to 4.0 in both copies of the table.
C14_CategoryLookup ==
  RateCalled =>
    /\ MatchingEntries = {} => result = 30
    /\ MatchingEntries # {} =>
         result = CalledTable[CHOOSE i \in MatchingEntries :
                                \A j \in MatchingEntries : i <= j][2]
    /\ args.category = Cat_Headphones => result = 40

\* C14 witness: the shopping-search copy of the table was asked for
\* 'Wireless Headphones for Gaming' and answered from the 'headphones' entry.
C14_Witness ==
  /\ RateCalled /\ args.adapter = "serp" /\ args.category = Cat_Headphones
  /\ result = 40
  /\ MatchingEntries = {8}

\* The name under which research_products lists an adapter it has called.
SourceName(source) == IF source = "serp" THEN "serpapi_shopping" ELSE "amazon"

\* The sources consulted in this invocation, in the order they were first consulted.
Consulted ==
  [j \in 1..Len(fetch_log) |-> SourceName(fetch_log[j].source)]
  \o (IF enrich_log # <<>> THEN <<"serpapi_enrichment">> ELSE <<>>)

\* C15: api_sources of a success envelope lists exactly the sources consulted in
\* this invocation, in the order they were first consulted, none twice; an
\* adapter that was skipped is not listed.
C15_SourcesConsulted ==
  SuccessReturned =>
    LET listed == result.session_data.api_sources
    IN  /\ listed = Consulted
        /\ \A i, j \in 1..Len(listed) : i < j => listed[i] # listed[j]
        /\ (~amazon_api \/ fetch_log[1].returned > 0) =>
             \A i \in 1..Len(listed) : listed[i] # "amazon"

\* C15 witness: the primary adapter, the fallback and the enrichment were consulted.
C15_Witness ==
  /\ SuccessReturned
  /\ result.session_data.api_sources = <<"serpapi_shopping", "amazon", "serpapi_enrichment">>

\* The number of products passed through enrichment in this invocation.
EnrichedCount == IF enrich_log = <<>> THEN 0 ELSE Len(enrich_log[1].products)

\* C16: api_calls_made of a success envelope is the number of adapter fetch
\* calls (1 or 2) plus the number of products passed through enrichment.
C16_CallsMade ==
  SuccessReturned =>
    /\ Len(fetch_log) \in {1, 2}
    /\ result.session_data.api_calls_made = Len(fetch_log) + EnrichedCount

\* C16 witness: two fetch calls and an enrichment of three products.
C16_Witness ==
  /\ SuccessReturned /\ Len(fetch_log) = 2 /\ EnrichedCount = 3
  /\ result.session_data.api_calls_made = 5

\* enrich_product_data has just returned.
Enriched == entry = "engine" /\ pc = "context" /\ enrich_log # <<>>

\* One of the two lookups made for a product failed.
LookupFailed(outcome) == ~outcome.search.ok \/ ~outcome.comp.ok

\* C17: a product whose enrichment failed is forwarded unmodified: its
\* search_volume, difficulty and competition_score are those it had before the
\* enrichment started, also when the first lookup had succeeded.
C17_FailedEnrichmentUnmodified ==
  Enriched =>
    \A i \in 1..Len(all_products) :
      LookupFailed(enrich_log[1].lookups[i]) =>
        /\ all_products[i].search_volume = enrich_log[1].products[i].search_volume
        /\ all_products[i].difficulty = enrich_log[1].products[i].difficulty
        /\ all_products[i].competition_score = enrich_log[1].products[i].competition_score

\* C18: enrich_product_data returns a list of the same length holding the same
\* products in the same order, whatever lookups failed.
C18_EnrichKeepsProducts ==
  Enriched =>
    /\ Len(all_products) = Len(enrich_log[1].products)
    /\ \A i \in 1..Len(all_products) :
         /\ all_products[i].oid = enrich_log[1].products[i].oid
         /\ all_products[i].external_id = enrich_log[1].products[i].external_id
         /\ all_products[i].title = enrich_log[1].products[i].title

\* C18 witness: of three products the lookups of the second failed and those of
\* the other two succeeded.
C18_Witness ==
  /\ Enriched /\ Len(all_products) = 3
  /\ ~enrich_log[1].lookups[2].search.ok
  /\ enrich_log[1].lookups[1].comp.ok /\ enrich_log[1].lookups[3].comp.ok

\* The products as the adapters returned them, in fetch order.
AdapterReturned ==
  IF fetch_log = <<>> THEN <<>>
  ELSE IF Len(fetch_log) = 1 THEN Collected(fetch_log[1].products)
  ELSE Collected(fetch_log[1].products \o fetch_log[2].products)

EnrichmentFields == {"search_volume", "difficulty", "competition_score"}

\* Products p and q agree on every field outside fields.
SameExcept(p, q, fields) ==
  /\ DOMAIN p = DOMAIN q
  /\ \A f \in DOMAIN p \ fields : p[f] = q[f]

\* C19: enrichment changes only search_volume, difficulty and competition_score
\* of a product, scoring only its research_score; every other field is in the
\* final envelope what it was when the adapter returned the product.
C19_FrameOfStages ==
  /\ Enriched =>
       \A i \in 1..Len(all_products) :
         SameExcept(all_products[i], enrich_log[1].products[i], EnrichmentFields)
  /\ (Scored /\ enrich_log = <<>>) =>
       \A i \in 1..Len(all_products) :
         SameExcept(all_products[i], AdapterReturned[i], {"research_score"})
  /\ SuccessReturned =>
       \A i \in 1..Len(result.products) :
         \E j \in 1..Len(AdapterReturned) :
           /\ AdapterReturned[j].oid = result.products[i].oid
           /\ SameExcept(result.products[i], AdapterReturned[j],
                         EnrichmentFields \cup {"research_score"})

\* C19 witness: a returned product that enrichment and scoring have changed.
C19_Witness ==
  /\ SuccessReturned /\ result.products # <<>>
  /\ result.products[1].search_volume # NONE
  /\ result.products[1].competition_score # AdapterReturned[result.products[1].oid].competition_score
  /\ result.products[1].research_score > 0

\* The products an adapter has just emitted.
AdapterEmitted == IF entry = "engine" THEN Emitted ELSE <<>>

\* C20: every product emitted by an adapter has price >= 0, commission_rate >= 0
\* and, when original_price is present, original_price >= price.
C20_CommerceFields ==
  \A i \in 1..Len(AdapterEmitted) :
    /\ AdapterEmitted[i].price >= 0
    /\ AdapterEmitted[i].commission_rate >= 0
    /\ AdapterEmitted[i].original_price # NONE =>
         AdapterEmitted[i].original_price >= AdapterEmitted[i].price

\* A field of the scored product with the default d when the field is absent.
PresentOr(x, d) == IF x = NONE THEN d ELSE x

\* C21: calculate_score returns min(100, b x the weighted sum of the seven
\* sub-scores) with b = 1.1 for the niches tech, electronics and software and 1
\* otherwise, where the competition component is max(100 - competition_score, 0)
\* also for competition_score 0, rating_score is (rating / 5) x 100 for every
\* present rating, and defaults apply only to absent fields.
C21_ScoreFormula ==
  ScoreCalled =>
    LET product == args.product
        scores == result.scores
        b == IF Lower(product.niche) \in {Str_tech, Str_electronics, Str_software}
             THEN 11 ELSE 10
        sum == 25 * scores.commission_rate + 20 * scores.trending_score
               + 15 * scores.competition_score + 15 * scores.rating_score
               + 10 * scores.volume_score + 10 * scores.price_score
               + 5 * scores.review_score
    IN  /\ scores.competition_score
             = Max2(1000000 - PresentOr(product.competition_score, 500) * 1000, 0)
        /\ scores.rating_score = PresentOr(product.rating, 30) * 20000
        /\ result.final_score = sum
        /\ result.returned = Min2(b * sum, 1000000000)

\* The direct call of a trending score has returned.
TrendingCalled == entry = "trending_score" /\ pc = "called"

\* The review count of the raw item of the call, NONE when absent.
ItemReviewCount == IF args.adapter = "amazon" THEN args.item.Count ELSE args.item.reviews

ItemRating == IF args.adapter = "amazon" THEN args.item.StarRating ELSE args.item.rating

\* A badge of the raw item contains 'choice' or 'bestseller'.
ItemHasBadge ==
  /\ args.adapter = "amazon"
  /\ \E i \in 1..Len(args.item.Classifications) :
       \/ Contains(Lower(args.item.Classifications[i]), Str_choice)
       \/ Contains(Lower(args.item.Classifications[i]), Str_bestseller)

\* The raw item shows a discounted price.
ItemHasDiscount ==
  IF args.adapter = "amazon"
  THEN args.item.Listings # <<>> /\ args.item.Listings[1].SavingBasis # NONE
  ELSE args.item.compared_at_price # <<>> \/ args.item.original_price # <<>>

\* The trending score as the claim states it, before the clamp, in tenths of a point.
StatedTrending ==
  500
  + (IF ItemRating # NONE THEN (ItemRating - 30) * 10 ELSE 0)
  + (IF ItemReviewCount = NONE THEN 0
     ELSE IF ItemReviewCount > 1000 THEN 200
     ELSE IF ItemReviewCount > 100 THEN 100 ELSE 0)
  + (IF ItemHasBadge THEN 150 ELSE 0)
  + (IF ItemHasDiscount THEN 100 ELSE 0)

\* C22: the trending score of a raw item is clamp(50 + (rating - 3.0) x 10 if a
\* rating is present + review bonus (20 above 1000 reviews, 10 above 100, else 0)
\* + 15 for a 'choice' or 'bestseller' badge + 10 for a discounted price, 0, 100),
\* and so lies in [0,100] also for ratings below 0 or above 5.
C22_TrendingScore ==
  TrendingCalled =>
    /\ result = Max2(0, Min2(StatedTrending, 1000))
    /\ InRange(result, 0, 1000)

\* The direct call of a competition score has returned.
CompetitionCalled == entry = "competition_score" /\ pc = "called"

\* The one review-count step of the competition score, the highest threshold winning.
StatedReviewStep ==
  IF ItemReviewCount = NONE THEN 0
  ELSE IF ItemReviewCount > 5000 THEN 300
  ELSE IF ItemReviewCount > 1000 THEN 200
  ELSE IF ItemReviewCount > 100 THEN 100 ELSE 0

\* The adapter's single extra signal of the competition score.
StatedExtraSignal ==
  IF args.adapter = "amazon"
  THEN (IF Len(args.item.Listings) > 1 THEN 150 ELSE 0)
  ELSE (IF ItemRating # NONE /\ ItemRating > 45 THEN 100 ELSE 0)

\* C23: the competition score of a raw item is 50 plus exactly one of +30
\* (more than 5000 reviews), +20 (more than 1000), +10 (more than 100) or 0, plus
\* the adapter's extra signal (+15 for more than one listing, +10 for a rating
\* above 4.5), and lies in [50,100].
C23_CompetitionScore ==
  CompetitionCalled =>
    /\ result = 500 + StatedReviewStep + StatedExtraSignal
    /\ InRange(result, 500, 1000)

\* C23 witness: a shopping item with more than 5000 reviews and a rating above 4.5.
C23_Witness ==
  /\ CompetitionCalled /\ args.adapter = "serp"
  /\ args.item.reviews = 5001 /\ args.item.rating = 46
  /\ result = 900

\* The direct call of enrich_product_data has returned.
EnrichCalled == entry = "enrich_product_data" /\ pc = "called"

\* The raw competition signal of a lookup: 5 for each of the first ten results on
\* an affiliate-heavy domain, 3 for each whose title has a review term.
RawSignal(lookup) ==
  LET top == 1..Min2(Len(lookup.organic), 10)
  IN  5 * Cardinality({i \in top : lookup.organic[i].affiliate})
      + 3 * Cardinality({i \in top : lookup.organic[i].review})

\* The competition score after enrichment, given the score before and the lookup.
RaisedBySignal(pre, post, lookup) ==
  /\ post = (IF lookup.ok THEN Min2(pre + Min2(RawSignal(lookup), 50) * 10, 1000) ELSE pre)
  /\ pre <= post /\ post <= 1000 /\ post - pre <= 500

\* C24: enrichment raises competition_score by min(raw signal, 50) and re-clamps
\* to 100; the score is never lower than before, never above 100 and never more
\* than 50 above its value before enrichment.
C24_CompetitionRaise ==
  /\ EnrichCalled =>
       \A i \in 1..Len(args.products) :
          RaisedBySignal(args.products[i].competition_score, result[i].competition_score,
                         args.outcomes[i].comp)
  /\ Enriched =>
       \A i \in 1..Len(all_products) :
          RaisedBySignal(enrich_log[1].products[i].competition_score,
                         all_products[i].competition_score, enrich_log[1].lookups[i].comp)

\* C24 witness: a raw signal of 80 from twelve affiliate review results raises a
\* competition score of 20 by exactly 50.
C24_Witness ==
  /\ EnrichCalled
  /\ args.products[1].competition_score = 200
  /\ Len(args.outcomes[1].comp.organic) = 12
  /\ RawSignal(args.outcomes[1].comp) = 80
  /\ result[1].competition_score = 700

\* The position of a stage in the order of research_products.
StageIndex(stage) ==
  CASE stage = "start" -> 0 [] stage = "primary" -> 1 [] stage = "fallback" -> 2
    [] stage = "enrich" -> 3 [] stage = "context" -> 4 [] stage = "score" -> 5
    [] stage = "rank" -> 6 [] stage = "truncate" -> 7 [] stage = "emit" -> 8
    [] OTHER -> 9

\* The collected products carry their post-enrichment fields: enrichment, when
\* its condition held, has run over every one of them.
PostEnrichment ==
  /\ EnrichCondition => enrich_log # <<>>
  /\ enrich_log # <<>> =>
       /\ Len(enrich_log) = 1
       /\ Len(enrich_log[1].lookups) = Len(enrich_log[1].products)
       /\ Len(all_products) = Len(enrich_log[1].products)
       /\ \A i \in 1..Len(all_products) :
            all_products[i] = EnrichOne(enrich_log[1].products[i], enrich_log[1].lookups[i])

\* One step of an invocation of research_products.
C25_Step ==
  entry = "engine" =>
    /\ pc' # pc =>
         \/ StageIndex(pc') = StageIndex(pc) + 1
         \/ StageIndex(pc) = 9
         \/ pc' \in {"returned", "aborted"}
    /\ niche_data' # niche_data =>
         /\ pc = "context" /\ pc' = "score"
         /\ niche_data = Nothing
         /\ PostEnrichment
         /\ sorted_products = <<>> /\ final_products = <<>>
         /\ all_products # <<>> => niche_data'.total_products = Len(all_products)
         /\ niche_data'.avg_search_volume
              = Average(TruthyValues(all_products, "search_volume"), 1000)
    /\ (\E i \in 1..Min2(Len(all_products), Len(all_products')) :
          all_products'[i].research_score # all_products[i].research_score) =>
         /\ pc = "score" /\ pc' = "rank"
         /\ niche_data # Nothing /\ niche_data' = niche_data
         /\ PostEnrichment
         /\ Len(all_products') = Len(all_products)
         /\ \A i \in 1..Len(all_products) :
              all_products'[i].research_score = calculate_score(all_products[i], niche_data)
    /\ sorted_products' # sorted_products => pc = "rank" /\ pc' = "truncate"
    /\ final_products' # final_products => pc = "truncate" /\ pc' = "emit"
    /\ (pc = "emit" /\ pc' = "returned") => result'.session_data.niche_insights = niche_data

\* C25: within one invocation of research_products the stages run in the order
\* fetch, fallback, enrichment, niche context, scoring, sort, truncate; the niche
\* context is computed once, over all collected products after enrichment and
\* before truncation, and every research_score is computed from that context
\* and the product's post-enrichment fields.
C25_StageOrder == [][C25_Step]_vars

\* C25 witness: a run that enriched its products with a search volume, scored
\* them against the average of those volumes and then truncated the list.
C25_Witness ==
  /\ SuccessReturned /\ enrich_log # <<>>
  /\ niche_data.avg_search_volume.num = 50000 * niche_data.avg_search_volume.den
  /\ Len(final_products) < Len(all_products)
  /\ \A i \in 1..Len(all_products) : all_products[i].search_volume = 50000

\* A raw item of the shopping response parses and its product passes the filter.
SerpItemKept(item) ==
  /\ ShoppingItemParses(item)
  /\ PassesCriteria(ParseShoppingItem(item, params))

\* A raw item of the marketplace response parses and its product passes the filter.
AmazonItemKept(item) ==
  /\ ~item.malformed
  /\ PassesCriteria(ParseAmazonItem(item, params))

\* The identifiers of the raw items of a response, in response order.
SerpItemIds(items) == [i \in 1..Len(items) |-> items[i].product_id]

AmazonItemIds(items) == [i \in 1..Len(items) |-> items[i].ASIN]

\* C28: an adapter skips a raw item whose parsing fails and returns exactly the
\* remaining items that parse and pass the criteria filter, in response order;
\* it returns the empty list when the whole call fails.
C28_SkipUnparsable ==
  \A k \in 1..Len(fetch_log) :
    LET returned == ExternalIds(fetch_log[k].products)
    IN  IF fetch_log[k].source = "serp"
        THEN /\ serp_response.ok =>
                  returned = SerpItemIds(SelectSeq(serp_response.items, SerpItemKept))
             /\ ~serp_response.ok => returned = <<>>
        ELSE /\ amazon_response.ok =>
                  returned = AmazonItemIds(SelectSeq(amazon_response.items, AmazonItemKept))
             /\ ~amazon_response.ok => returned = <<>>

\* C28 witness: the marketplace adapter returned the items around one that
\* failed to parse.
C28_Witness ==
  /\ entry = "engine" /\ pc = "enrich" /\ amazon_response.ok
  /\ Len(amazon_response.items) = 3
  /\ ~amazon_response.items[1].malformed
  /\ amazon_response.items[2].malformed
  /\ ~amazon_response.items[3].malformed
  /\ Len(all_products) = 2
  /\ ExternalIds(all_products) = <<amazon_response.items[1].ASIN, amazon_response.items[3].ASIN>>

\* The niche context of the invocation has been computed.
ContextComputed == entry = "engine" /\ niche_data # Nothing

\* C29: the avg_search_volume handed to the scoring engine is strictly positive
\* for every list of collected products (empty, all volumes absent, some or all
\* volumes zero), so the volume sub-score never divides by zero and every
\* collected product receives a score.
C29_PositiveAverageVolume ==
  /\ ContextComputed =>
       /\ \A i \in 1..Len(all_products) :
            all_products[i].search_volume = NONE \/ all_products[i].search_volume >= 0
       /\ niche_data.avg_search_volume.num > 0
       /\ niche_data.avg_search_volume.den > 0
  /\ (ContextComputed /\ pc = "rank") =>
       \A i \in 1..Len(all_products) :
          LET volume == all_products[i].search_volume
              a == (IF Truthy(volume) THEN volume ELSE 1000)
                   * niche_data.avg_search_volume.den * 50
          IN  /\ calculate_score(all_products[i], niche_data) = all_products[i].research_score
              /\ InRange(all_products[i].research_score, 0, 1000000000)
              /\ a \div niche_data.avg_search_volume.num >= 0

\* C29 witness: every collected product was enriched to a search volume of
\* zero and the context fell back to the default average of 1000.
C29_Witness ==
  /\ ContextComputed /\ pc = "rank"
  /\ Len(all_products) >= 2
  /\ \A i \in 1..Len(all_products) : all_products[i].search_volume = 0
  /\ niche_data.avg_search_volume = [num |-> 1000, den |-> 1]

\* The direct call of _apply_intelligent_scoring has returned a scored list.
ScoringReturned ==
  entry = "apply_intelligent_scoring" /\ pc = "called" /\ ~result.raised

\* The eight component names.
ComponentNames == DOMAIN RyeWeights

\* The marketplace bonus as stated, in tenths of a point.
StatedBonus(product) ==
  IF product.marketplace = "AMAZON" THEN 20
  ELSE IF product.marketplace = "SHOPIFY" THEN 10 ELSE 0

\* C26: in the catalog scoring every component is in [0,1], the weights sum to
\* 1.00 and intelligent_score = min(100 x sum(weight x component) + bonus, 100)
\* with bonus 2 for AMAZON, 1 for SHOPIFY and 0 otherwise, so intelligent_score
\* and every score_breakdown entry are in [0,100].
C26_ComponentsInUnitInterval ==
  ScoringReturned =>
    /\ WeightedTotal([k \in ComponentNames |-> 1], RyeWeights, ComponentNames) = 100
    /\ \A i \in 1..Len(result.products) :
         LET scored == result.products[i]
             components == RyeScoreComponents(scored.product, args.market_analysis)
             weighted == WeightedTotal(components, RyeWeights, ComponentNames)
         IN  /\ \A k \in ComponentNames :
                  /\ InRange(components[k], 0, 10000)
                  /\ InRange(scored.score_breakdown[k], 0, 1000)
             /\ InRange(scored.intelligent_score, 0, 1000)
             /\ scored.intelligent_score
                  = RoundTo(Min2(weighted + StatedBonus(scored.product) * 1000, 1000000), 1000)

\* The labels that go with a reported score, in tenths of a point.
StatedLabels(intelligent_score) ==
  IF intelligent_score >= 800 THEN <<"Easy", "High">>
  ELSE IF intelligent_score >= 600 THEN <<"Medium", "Good">>
  ELSE <<"Hard", "Low">>

\* C30: in every product returned by the catalog scoring the labels agree with
\* the reported intelligent_score (at least 80: Easy and High; at least 60:
\* Medium and Good; below 60: Hard and Low), and the returned list is a
\* permutation of the input in non-increasing order of intelligent_score.
C30_LabelsAgreeWithScore ==
  ScoringReturned =>
    /\ \A i \in 1..Len(result.products) :
         <<result.products[i].difficulty, result.products[i].affiliate_potential>>
           = StatedLabels(result.products[i].intelligent_score)
    /\ Len(result.products) = Len(args.products)
    /\ \E f \in [1..Len(args.products) -> 1..Len(args.products)] :
         /\ \A i, j \in 1..Len(args.products) : i # j => f[i] # f[j]
         /\ \A i \in 1..Len(args.products) : result.products[i].product = args.products[f[i]]
    /\ \A i \in 1..Len(result.products) - 1 :
         result.products[i].intelligent_score >= result.products[i + 1].intelligent_score

\* The direct call of get_products_by_ids has returned.
IdsCalled == entry = "get_products_by_ids" /\ pc = "called"

\* The positions, in the input, of the ids looked up, in lookup order.
LookedUp == [k \in 1..Len(lookup_log) |-> lookup_log[k].position]

\* The positions of the valid entries among the first n entries of the input.
ValidPositions(n) ==
  LET positions == [k \in 1..Min2(n, Len(args.product_ids)) |-> k]
  IN  SelectSeq(positions, LAMBDA k : args.product_ids[k].kind \in {"dict", "str"})

\* The call looks up exactly the entries at the positions to_look_up: an error
\* without lookups when there is none, no entry looked up twice, every lookup
\* made whatever the earlier ones gave, and the counts of a result that carries
\* them.
BatchContract(to_look_up) ==
  /\ to_look_up = <<>> => (~result.success /\ lookup_log = <<>>)
  /\ result.success => LookedUp = to_look_up
  /\ Len(lookup_log) <= 25
  /\ \A j, k \in 1..Len(lookup_log) : j # k => lookup_log[j].position # lookup_log[k].position
  /\ result.success =>
       result.products
         = [k \in 1..Len(SelectSeq(lookup_log, LAMBDA l : l.outcome = "found")) |->
              SelectSeq(lookup_log, LAMBDA l : l.outcome = "found")[k].id]
  /\ "requested_count" \in DOMAIN result =>
       /\ result.retrieved_count <= result.requested_count
       /\ result.requested_count <= 25

\* C27: one call of get_products_by_ids looks up the first 25 valid
\* entries of the input, in input order, each at most once; it returns an error
\* without any lookup when the input is empty or holds no valid id; a failed
\* lookup does not stop the later ones; retrieved_count <= requested_count <= 25.
C27_First25ValidEntries ==
  IdsCalled => BatchContract(Take(ValidPositions(Len(args.product_ids)), 25))


====
